---- MODULE Spec2Model ----
(***************************************************************************)
(* Super Cipher: the multi-layer cipher pipeline of                        *)
(* src/lib/crypto/encryption-manager.ts and the ciphers it dispatches to.  *)
(*                                                                         *)
(* A JavaScript string is a sequence of UTF-16 code units, modelled as a   *)
(* sequence of naturals.  An algorithm identifier and a security mode are  *)
(* TLA+ strings.  A key map (Record<string, string>) is a function from    *)
(* the algorithm identifiers it holds to key strings.                      *)
(***************************************************************************)
EXTENDS Integers, Sequences, FiniteSets, TLC

VARIABLES run, prev

vars == <<run, prev>>

----------------------------------------------------------------------------
(* Strings                                                                 *)

\* The printable ASCII characters, code 32 first, used to write literals
\* (the double quote, the backslash and the backtick by name).
AsciiTable ==
  <<" ", "!", "dquote", "#", "$", "%", "&", "'", "(", ")", "*", "+", ",", "-", ".", "/",
    "0", "1", "2", "3", "4", "5", "6", "7", "8", "9", ":", ";", "<", "=", ">", "?",
    "@", "A", "B", "C", "D", "E", "F", "G", "H", "I", "J", "K", "L", "M", "N", "O",
    "P", "Q", "R", "S", "T", "U", "V", "W", "X", "Y", "Z", "[", "backslash", "]", "^", "_",
    "backtick", "a", "b", "c", "d", "e", "f", "g", "h", "i", "j", "k", "l", "m", "n", "o",
    "p", "q", "r", "s", "t", "u", "v", "w", "x", "y", "z", "{", "|", "}", "~">>

\* charCodeAt of a one-character literal.
Ord(c) == 31 + (CHOOSE i \in 1..Len(AsciiTable) : AsciiTable[i] = c)

\* The string written as a tuple of one-character literals.
S(t) == [i \in 1..Len(t) |-> Ord(t[i])]

\* JavaScript's % on integers: the result takes the sign of the dividend.
JsRem(a, b) == IF a >= 0 THEN a % b ELSE 0 - ((0 - a) % b)

\* Math.floor(a / b) for b > 0.
FloorDiv(a, b) == a \div b

IsUpperLetter(c) == c >= 65 /\ c <= 90
IsLowerLetter(c) == c >= 97 /\ c <= 122
\* char.match(/[a-z]/i): without the u flag only the ASCII letters match.
IsAsciiLetter(c) == IsUpperLetter(c) \/ IsLowerLetter(c)
IsDigit(c) == c >= 48 /\ c <= 57

\* String.prototype.toUpperCase / toLowerCase on an ASCII letter.
ToUpper(c) == IF IsLowerLetter(c) THEN c - 32 ELSE c
ToLower(c) == IF IsUpperLetter(c) THEN c + 32 ELSE c

\* s.startsWith(p)
StartsWith(s, p) == Len(s) >= Len(p) /\ SubSeq(s, 1, Len(p)) = p

\* s.substring(n) with n counted from 0.
Drop(s, n) == SubSeq(s, n + 1, Len(s))

\* The first index (from 1) at which p occurs in s, 0 when it does not.
IndexOf(s, p) ==
  LET hits == {i \in 1..(Len(s) - Len(p) + 1) : SubSeq(s, i, i + Len(p) - 1) = p}
  IN  IF hits = {} THEN 0 ELSE CHOOSE i \in hits : \A j \in hits : i <= j

\* Number.prototype.toString for a natural number.
RECURSIVE ToDecimal(_)
ToDecimal(n) ==
  IF n < 10 THEN <<48 + n>> ELSE Append(ToDecimal(n \div 10), 48 + (n % 10))

\* All strings over a set of characters of length at most n.
RECURSIVE StringsUpTo(_, _)
StringsUpTo(chars, n) ==
  IF n = 0 THEN {<<>>}
  ELSE LET shorter == StringsUpTo(chars, n - 1)
       IN  shorter \cup {Append(s, c) : s \in shorter, c \in chars}

----------------------------------------------------------------------------
(* Results of a call: a value or a thrown Error                            *)

\* A call that returned text.
Ok(text) == [ok |-> TRUE, value |-> text, msg |-> "", cause |-> ""]
\* A call that threw new Error(msg), msg written with `cause` interpolated.
Err(msg, cause) == [ok |-> FALSE, value |-> <<>>, msg |-> msg, cause |-> cause]

----------------------------------------------------------------------------
(* Caesar cipher: src/lib/crypto/caesar.ts                                 *)

\* A processText that writes every letter in upper case.
processTextDropsCase(text, shift, isEncrypt) ==
  LET normal == JsRem(JsRem(shift, 26) + 26, 26)
      s == IF ~isEncrypt THEN 26 - normal ELSE normal
  IN  [i \in 1..Len(text) |->
        IF IsAsciiLetter(text[i]) THEN 65 + ((ToUpper(text[i]) - 65 + s) % 26)
        ELSE text[i]]

\* A processText that shifts forward when it decrypts, as when it encrypts.
processTextWrongDecrypt(text, shift, isEncrypt) ==
  LET s == JsRem(JsRem(shift, 26) + 26, 26)
  IN  [i \in 1..Len(text) |->
        IF IsAsciiLetter(text[i])
        THEN LET newChar == 65 + ((ToUpper(text[i]) - 65 + s) % 26)
             IN  IF text[i] = ToUpper(text[i]) THEN newChar ELSE ToLower(newChar)
        ELSE text[i]]

processText(text, shift, isEncrypt) ==
  LET normal == JsRem(JsRem(shift, 26) + 26, 26)
      s == IF ~isEncrypt THEN 26 - normal ELSE normal
  IN  [i \in 1..Len(text) |->
        IF IsAsciiLetter(text[i])
        THEN LET isUpperCase == text[i] = ToUpper(text[i])
                 alphabetIndex == ToUpper(text[i]) - 65
                 newIndex == (alphabetIndex + s) % 26
                 newChar == 65 + newIndex
             IN  IF isUpperCase THEN newChar ELSE ToLower(newChar)
        ELSE text[i]]

CaesarEncrypt(plaintext, shift) == processText(plaintext, shift, TRUE)
CaesarDecrypt(ciphertext, shift) == processText(ciphertext, shift, FALSE)

\* maxShift of generateKey.
CaesarMaxShift(mode) ==
  CASE mode = "high" -> 25
    [] mode = "balanced" -> 20
    [] mode = "lightweight" -> 13

\* Math.floor(Math.random() * maxShift) + 1: every value 1..maxShift.
CaesarGenerateKey(mode) == 1..CaesarMaxShift(mode)

\* `SHIFT-${shift}`
formatKey(shift) ==
  S(<<"S", "H", "I", "F", "T", "-">>)
    \o (IF shift < 0 THEN <<45>> \o ToDecimal(0 - shift) ELSE ToDecimal(shift))

----------------------------------------------------------------------------
(* Vigenere cipher (src/lib/crypto/vigenere.ts is not among the sources:   *)
(* modelled from the specification, section 4.3)                           *)

\* The rotation a key letter stands for.
VigenereShift(k) == ToUpper(k) - 65

\* Repeating-key rotation of text[lo..hi], the key index being keyIndex at lo:
\* the key index advances only on a letter, the case of each letter is kept,
\* every other character is emitted unchanged.  The result is the text and the
\* number of letters in it.
RECURSIVE VigenereProcess(_, _, _, _, _, _)
VigenereProcess(text, key, isEncrypt, lo, hi, keyIndex) ==
  IF lo > hi THEN [out |-> <<>>, letters |-> 0]
  ELSE IF lo = hi
  THEN IF IsAsciiLetter(text[lo])
       THEN LET k == VigenereShift(key[(keyIndex % Len(key)) + 1])
                s == IF isEncrypt THEN k ELSE 26 - k
                newChar == 65 + ((ToUpper(text[lo]) - 65 + s) % 26)
            IN  [out |-> <<IF IsUpperLetter(text[lo]) THEN newChar ELSE ToLower(newChar)>>,
                 letters |-> 1]
       ELSE [out |-> <<text[lo]>>, letters |-> 0]
  ELSE LET mid == (lo + hi) \div 2
           left == VigenereProcess(text, key, isEncrypt, lo, mid, keyIndex)
           right == VigenereProcess(text, key, isEncrypt, mid + 1, hi,
                                    keyIndex + left.letters)
       IN  [out |-> left.out \o right.out, letters |-> left.letters + right.letters]

\* An empty key is a hard error (EmptyKey).
VigenereEncrypt(plaintext, key) ==
  IF key = <<>> THEN Err("Vigenere key cannot be empty", "")
  ELSE Ok(VigenereProcess(plaintext, key, TRUE, 1, Len(plaintext), 0).out)

VigenereDecrypt(ciphertext, key) ==
  IF key = <<>> THEN Err("Vigenere key cannot be empty", "")
  ELSE Ok(VigenereProcess(ciphertext, key, FALSE, 1, Len(ciphertext), 0).out)

\* The key length generateKey is asked for (encryption-manager.ts, line 78).
VigenereKeyLength(mode) ==
  IF mode = "high" THEN 32 ELSE IF mode = "balanced" THEN 16 ELSE 8

----------------------------------------------------------------------------
(* The delegated primitives (CryptoJS AES and Blowfish, node-forge RSA) as *)
(* black boxes.  A ciphertext is text over the base64 alphabet that binds  *)
(* the key it was made with: a length-prefixed key tag, then the payload,  *)
(* every code unit written as three base64 digits.  A ciphertext that does *)
(* not carry the tag of the key it is opened with does not decrypt.        *)

\* The base64 alphabet A-Z a-z 0-9 + /.
B64Digit(d) ==
  IF d < 26 THEN 65 + d
  ELSE IF d < 52 THEN 97 + (d - 26)
  ELSE IF d < 62 THEN 48 + (d - 52)
  ELSE IF d = 62 THEN 43 ELSE 47

IsB64(c) == IsAsciiLetter(c) \/ IsDigit(c) \/ c = 43 \/ c = 47

B64Value(c) ==
  IF IsUpperLetter(c) THEN c - 65
  ELSE IF IsLowerLetter(c) THEN c - 97 + 26
  ELSE IF IsDigit(c) THEN c - 48 + 52
  ELSE IF c = 43 THEN 62 ELSE 63

\* Three base64 digits per code unit.
B64Encode(text) ==
  [i \in 1..(3 * Len(text)) |->
    LET c == text[((i - 1) \div 3) + 1]
        k == (i - 1) % 3
    IN  B64Digit(IF k = 0 THEN (c \div 4096) % 64
                 ELSE IF k = 1 THEN (c \div 64) % 64 ELSE c % 64)]

B64Wellformed(text) ==
  Len(text) % 3 = 0 /\ \A i \in 1..Len(text) : IsB64(text[i])

B64Decode(text) ==
  [i \in 1..(Len(text) \div 3) |->
    B64Value(text[3 * i - 2]) * 4096 + B64Value(text[3 * i - 1]) * 64
      + B64Value(text[3 * i])]

\* The tag that binds a ciphertext to its key (and key-derivation parameter).
KeyTag(key, param) == B64Encode(<<Len(key)>> \o key \o param)

\* The primitive's encryption and decryption.
Seal(plaintext, key, param) == KeyTag(key, param) \o B64Encode(plaintext)

Opens(ciphertext, key, param) ==
  /\ StartsWith(ciphertext, KeyTag(key, param))
  /\ B64Wellformed(ciphertext)

Unseal(ciphertext, key, param) ==
  B64Decode(Drop(ciphertext, Len(KeyTag(key, param))))

----------------------------------------------------------------------------
(* AES adapter: src/components/theme-toggle.tsx, lines 44-125             *)

AesGetKeySize(mode) ==
  CASE mode = "high" -> 256
    [] mode = "balanced" -> 192
    [] mode = "lightweight" -> 128

getIterations(mode) ==
  CASE mode = "high" -> 10000
    [] mode = "balanced" -> 5000
    [] mode = "lightweight" -> 1000

\* What PBKDF2 derives the cipher key from, besides the key string.
AesParam(mode) == <<AesGetKeySize(mode), getIterations(mode)>>

\* encrypt never throws on a string; the catch wraps what would.
AesEncrypt(plaintext, key, mode) == Ok(Seal(plaintext, key, AesParam(mode)))

\* decrypt: with another key or mode CryptoJS yields bytes that are no UTF-8
\* (toString throws, the catch wraps it) or no bytes at all (the empty string).
AesDecrypt(ciphertext, key, mode) ==
  IF Opens(ciphertext, key, AesParam(mode))
  THEN {Ok(Unseal(ciphertext, key, AesParam(mode)))}
  ELSE {Err("AES decryption failed", "Malformed UTF-8 data"), Ok(<<>>)}

----------------------------------------------------------------------------
(* Blowfish adapter: src/lib/crypto/hill.ts, lines 186-230                 *)

BlowfishGetKeySize(mode) ==
  CASE mode = "high" -> 448
    [] mode = "balanced" -> 256
    [] mode = "lightweight" -> 128

BlowfishEncrypt(plaintext, key) == Ok(Seal(plaintext, key, <<>>))

\* decrypt throws on an empty result, and the catch wraps every throw.
BlowfishDecrypt(ciphertext, key) ==
  IF Opens(ciphertext, key, <<>>)
  THEN LET result == Unseal(ciphertext, key, <<>>)
       IN  IF Len(result) = 0
           THEN {Err("Blowfish decryption failed",
                     "Decryption produced empty or invalid result")}
           ELSE {Ok(result)}
  ELSE {Err("Blowfish decryption failed", "Malformed UTF-8 data"),
        Err("Blowfish decryption failed",
            "Decryption produced empty or invalid result")}

----------------------------------------------------------------------------
(* RSA adapter: src/lib/crypto/rsa.ts                                      *)

RsaGetKeySize(mode) ==
  CASE mode = "high" -> 4096
    [] mode = "balanced" -> 2048
    [] mode = "lightweight" -> 1024

\* A PEM text is modelled by three characters: P (public) or S (private), the
\* modulus size in units of 1024 bits as a digit, and the key pair's name.
PublicPem(bits, id) == <<Ord("P"), 48 + (bits \div 1024), id>>
PrivatePem(bits, id) == <<Ord("S"), 48 + (bits \div 1024), id>>

\* forge.pki.publicKeyFromPem / privateKeyFromPem accept the text.
IsPem(pem, kind) ==
  /\ Len(pem) = 3
  /\ pem[1] = kind
  /\ pem[2] \in {Ord("1"), Ord("2"), Ord("4")}

\* publicKey.n.bitLength()
PemBits(pem) == (pem[2] - 48) * 1024

\* The key pair a PEM text belongs to.
PemPair(pem) == <<pem[2], pem[3]>>

maxChunkSize(publicKeyPem) == (PemBits(publicKeyPem) \div 8) - 42

RsaSeparator == S(<<"|", "R", "S", "A", "|">>)

\* base64Chunk.length + ":" + base64Chunk, for the chunk that starts at i (from 0).
RsaChunk(plaintext, publicKeyPem, i) ==
  LET last == IF i + maxChunkSize(publicKeyPem) < Len(plaintext)
              THEN i + maxChunkSize(publicKeyPem) ELSE Len(plaintext)
      chunk == SubSeq(plaintext, i + 1, last)
      base64Chunk == Seal(chunk, PemPair(publicKeyPem), <<>>)
  IN  ToDecimal(Len(base64Chunk)) \o <<Ord(":")>> \o base64Chunk

\* The chunks from position i on, joined with the separator.
RECURSIVE RsaJoinChunks(_, _, _)
RsaJoinChunks(plaintext, publicKeyPem, i) ==
  IF i >= Len(plaintext) THEN <<>>
  ELSE LET rest == RsaJoinChunks(plaintext, publicKeyPem, i + maxChunkSize(publicKeyPem))
       IN  RsaChunk(plaintext, publicKeyPem, i)
             \o (IF i + maxChunkSize(publicKeyPem) < Len(plaintext)
                 THEN RsaSeparator \o rest ELSE <<>>)

RsaEncrypt(plaintext, publicKeyPem) ==
  IF ~IsPem(publicKeyPem, Ord("P"))
  THEN Err("RSA encryption failed", "Invalid PEM formatted message")
  ELSE Ok(RsaJoinChunks(plaintext, publicKeyPem, 0))

\* ciphertext.split(separator)
RECURSIVE Split(_, _)
Split(s, sep) ==
  LET at == IndexOf(s, sep)
  IN  IF at = 0 THEN <<s>>
      ELSE <<SubSeq(s, 1, at - 1)>> \o Split(Drop(s, at - 1 + Len(sep)), sep)

\* One chunk of decrypt's loop: the text behind the first ":".
RsaChunkBody(chunkData) == Drop(chunkData, IndexOf(chunkData, <<Ord(":")>>))

RECURSIVE RsaDecryptChunks(_, _, _, _)
RsaDecryptChunks(chunks, privateKeyPem, n, acc) ==
  IF n > Len(chunks) THEN Ok(acc)
  ELSE IF IndexOf(chunks[n], <<Ord(":")>>) = 0
       THEN Err("RSA decryption failed", "Invalid chunk format")
       ELSE IF ~Opens(RsaChunkBody(chunks[n]), PemPair(privateKeyPem), <<>>)
            THEN Err("RSA decryption failed", "Encryption block is invalid")
            ELSE RsaDecryptChunks(chunks, privateKeyPem, n + 1,
                   acc \o Unseal(RsaChunkBody(chunks[n]), PemPair(privateKeyPem), <<>>))

RsaDecrypt(ciphertext, privateKeyPem) ==
  IF ~IsPem(privateKeyPem, Ord("S"))
  THEN Err("RSA decryption failed", "Invalid PEM formatted message")
  ELSE RsaDecryptChunks(Split(ciphertext, RsaSeparator), privateKeyPem, 1, <<>>)

----------------------------------------------------------------------------
(* JSON: the texts JSON.stringify writes and JSON.parse reads, over a      *)
(* bounded universe of values                                              *)

\* A property an object does not have.
Undefined == <<0 - 1>>

JsonNull == [type |-> "null", num |-> 0, publicKey |-> Undefined,
             privateKey |-> Undefined, rows |-> <<>>]
JsonNumber(n) == [type |-> "number", num |-> n, publicKey |-> Undefined,
                  privateKey |-> Undefined, rows |-> <<>>]
\* An object with publicKey and privateKey, either of which may be absent.
JsonObject(pub, priv) == [type |-> "object", num |-> 0, publicKey |-> pub,
                          privateKey |-> priv, rows |-> <<>>]
\* An array of arrays of integers.
JsonArray(rows) == [type |-> "array", num |-> 0, publicKey |-> Undefined,
                    privateKey |-> Undefined, rows |-> rows]

SignedDecimal(n) == IF n < 0 THEN <<Ord("-")>> \o ToDecimal(0 - n) ELSE ToDecimal(n)

\* The elements of a sequence of texts joined with commas.
RECURSIVE JoinComma(_)
JoinComma(parts) ==
  IF Len(parts) = 0 THEN <<>>
  ELSE IF Len(parts) = 1 THEN parts[1]
  ELSE parts[1] \o <<Ord(",")>> \o JoinComma(Tail(parts))

Quoted(text) == <<34>> \o text \o <<34>>

JsonMember(name, text) == Quoted(name) \o <<Ord(":")>> \o Quoted(text)

PublicKeyName == S(<<"p", "u", "b", "l", "i", "c", "K", "e", "y">>)
PrivateKeyName == S(<<"p", "r", "i", "v", "a", "t", "e", "K", "e", "y">>)

JsonStringify(v) ==
  CASE v.type = "null" -> S(<<"n", "u", "l", "l">>)
    [] v.type = "number" -> SignedDecimal(v.num)
    [] v.type = "object" ->
         <<Ord("{")>>
           \o JoinComma(
                (IF v.publicKey = Undefined THEN <<>>
                 ELSE <<JsonMember(PublicKeyName, v.publicKey)>>)
                \o (IF v.privateKey = Undefined THEN <<>>
                    ELSE <<JsonMember(PrivateKeyName, v.privateKey)>>))
           \o <<Ord("}")>>
    [] v.type = "array" ->
         <<Ord("[")>>
           \o JoinComma([r \in 1..Len(v.rows) |->
                <<Ord("[")>>
                  \o JoinComma([c \in 1..Len(v.rows[r]) |-> SignedDecimal(v.rows[r][c])])
                  \o <<Ord("]")>>])
           \o <<Ord("]")>>

\* The modelled PEM texts: both kinds, the three sizes, two key pairs.
PemTexts ==
  {PublicPem(b, id) : b \in {1024, 2048, 4096}, id \in {Ord("a"), Ord("b")}}
    \cup {PrivatePem(b, id) : b \in {1024, 2048, 4096}, id \in {Ord("a"), Ord("b")}}

\* The matrices whose JSON text the model reads.
JsonMatrices ==
  {<<<<3, 3>>, <<2, 5>>>>, <<<<1, 2>>, <<3, 5>>>>, <<<<2, 4>>, <<6, 8>>>>,
   <<<<7, 8>>, <<11, 11>>>>}

\* The JSON values whose text the model reads.
JsonUniverse ==
  {JsonNull, JsonNumber(5)}
    \cup {JsonObject(pub, priv) :
            pub \in {t \in PemTexts : t[1] = Ord("P")}
                      \cup {Undefined, <<>>, PrivatePem(1024, Ord("a"))},
            priv \in {t \in PemTexts : t[1] = Ord("S")} \cup {Undefined, <<>>}}
    \cup {JsonArray(m) : m \in JsonMatrices}

\* JSON.parse: the value the text is written from; a text that is the text of
\* no value is a SyntaxError.
JsonValid(text) == \E v \in JsonUniverse : JsonStringify(v) = text
JsonParse(text) == CHOOSE v \in JsonUniverse : JsonStringify(v) = text

----------------------------------------------------------------------------
(* Hill cipher: src/lib/crypto/hill.ts, lines 1-184                        *)

ALPHABET_SIZE == 26

\* String.fromCharCode(n): n taken modulo 2^16.
FromCharCode(n) == n % 65536

\* The sum of f over the indices lo..hi.
RECURSIVE SumRange(_, _, _)
SumRange(f, lo, hi) ==
  IF lo > hi THEN 0
  ELSE IF lo = hi THEN f[lo]
  ELSE SumRange(f, lo, (lo + hi) \div 2) + SumRange(f, ((lo + hi) \div 2) + 1, hi)

\* The sum of f over the indices 1..n.
SumTo(f, n) == SumRange(f, 1, n)

\* matrix without row `row` and column `col` (both from 0).
getMinor(matrix, row, col) ==
  LET keepRows == [i \in 1..(Len(matrix) - 1) |->
                     matrix[IF i <= row THEN i ELSE i + 1]]
  IN  [i \in 1..Len(keepRows) |->
        [j \in 1..(Len(keepRows[i]) - 1) |->
          keepRows[i][IF j <= col THEN j ELSE j + 1]]]

RECURSIVE determinant(_)
\* Math.pow(-1, row + col) * determinant(minor)
cofactor(matrix, row, col) ==
  (IF (row + col) % 2 = 0 THEN 1 ELSE 0 - 1) * determinant(getMinor(matrix, row, col))

\* Size 2 by the closed form, every other size by expansion along the first
\* row; the loop does not run for size 0, whose determinant is therefore 0.
determinant(matrix) ==
  LET size == Len(matrix)
  IN  IF size = 2
      THEN matrix[1][1] * matrix[2][2] - matrix[1][2] * matrix[2][1]
      ELSE SumTo([j \in 1..size |-> matrix[1][j] * cofactor(matrix, 0, j - 1)], size)

RECURSIVE gcd(_, _)
gcd(a, b) == IF b = 0 THEN a ELSE gcd(b, JsRem(a, b))

\* An isInvertible that asks only for a determinant that is not 0 modulo 26.
isInvertibleNonZero(matrix) ==
  JsRem(JsRem(determinant(matrix), ALPHABET_SIZE) + ALPHABET_SIZE, ALPHABET_SIZE) # 0

isInvertible(matrix) ==
  LET det == determinant(matrix)
      detMod == JsRem(JsRem(det, ALPHABET_SIZE) + ALPHABET_SIZE, ALPHABET_SIZE)
  IN  gcd(detMod, ALPHABET_SIZE) = 1

\* The x in 1..m-1 with a*x = 1 (mod m), and 1 when there is none.
modInverse(a0, m) ==
  LET a == JsRem(JsRem(a0, m) + m, m)
      found == {x \in 1..(m - 1) : JsRem(a * x, m) = 1}
  IN  IF found = {} THEN 1 ELSE CHOOSE x \in found : \A y \in found : x <= y

invertMatrix(matrix) ==
  LET size == Len(matrix)
      det == determinant(matrix)
      detMod == JsRem(JsRem(det, ALPHABET_SIZE) + ALPHABET_SIZE, ALPHABET_SIZE)
      detInv == modInverse(detMod, ALPHABET_SIZE)
  IN  [i \in 1..size |->
        [j \in 1..size |->
          JsRem(JsRem(cofactor(matrix, j - 1, i - 1) * detInv, ALPHABET_SIZE)
                  + ALPHABET_SIZE, ALPHABET_SIZE)]]

\* One entry per row: the row times the vector, % 26.
multiplyMatrixVector(matrix, vector) ==
  [r \in 1..Len(matrix) |->
    JsRem(SumTo([i \in 1..Len(matrix[r]) |-> matrix[r][i] * vector[i]],
                Len(matrix[r])), ALPHABET_SIZE)]

\* The letters of one transformed block.  A row longer than the block reads
\* past its end: the sum is NaN and String.fromCharCode(NaN) is the character 0.
HillBlock(matrix, block) ==
  IF \E r \in 1..Len(matrix) : Len(matrix[r]) > Len(block)
  THEN [r \in 1..Len(matrix) |->
         IF Len(matrix[r]) > Len(block) THEN 0
         ELSE FromCharCode(multiplyMatrixVector(<<matrix[r]>>, block)[1] + 65)]
  ELSE [r \in 1..Len(matrix) |->
         FromCharCode(multiplyMatrixVector(matrix, block)[r] + 65)]

\* The blocks of `text`, size characters each, transformed and joined: every
\* block gives one letter per row of the matrix.
HillBlocks(matrix, text, size) ==
  LET rows == Len(matrix)
      blocks == (Len(text) + size - 1) \div size
      block(b) == [k \in 1..(IF b * size <= Len(text) THEN size
                             ELSE Len(text) - (b - 1) * size) |->
                     text[(b - 1) * size + k] - 65]
  IN  [n \in 1..(blocks * rows) |->
        HillBlock(matrix, block(((n - 1) \div rows) + 1))[((n - 1) % rows) + 1]]

\* Every character as three letters, base 26.
HillEncode(plaintext) ==
  [i \in 1..(3 * Len(plaintext)) |->
    LET code == plaintext[((i - 1) \div 3) + 1]
        k == (i - 1) % 3
    IN  FromCharCode(65 + (IF k = 0 THEN code \div 676
                           ELSE IF k = 1 THEN (code % 676) \div 26 ELSE code % 26))]

\* Three letters back to a character; a letter read past the end is NaN and
\* makes the character 0.
HillDecode(result) ==
  [i \in 1..((Len(result) + 2) \div 3) |->
    IF 3 * i > Len(result) THEN 0
    ELSE FromCharCode((result[3 * i - 2] - 65) * 676 + (result[3 * i - 1] - 65) * 26
                        + (result[3 * i] - 65))]

\* encrypt for a square key matrix of size >= 1.
HillEncrypt(plaintext, keyMatrix) ==
  LET size == Len(keyMatrix)
      encoded == HillEncode(plaintext)
      originalLength == Len(encoded)
      paddedText == encoded \o [k \in 1..((size - (Len(encoded) % size)) % size) |-> Ord("X")]
      paddingLength == Len(paddedText) - originalLength
      result == HillBlocks(keyMatrix, paddedText, size)
      paddingInfo == <<FromCharCode(65 + (paddingLength \div 26)),
                       FromCharCode(65 + (paddingLength % 26))>>
  IN  paddingInfo \o result

\* A decrypt that leaves the padding letters in the text it decodes.
HillDecryptKeepsPadding(ciphertext, keyMatrix) ==
  HillDecode(HillBlocks(invertMatrix(keyMatrix), Drop(ciphertext, 2), Len(keyMatrix)))

\* decrypt for a square key matrix of size >= 1.  A ciphertext of fewer than two
\* characters has a NaN padding length, which removes nothing.
HillDecrypt(ciphertext, keyMatrix) ==
  LET actualCiphertext == Drop(ciphertext, 2)
      paddingLength == IF Len(ciphertext) < 2 THEN 0
                       ELSE (ciphertext[1] - 65) * 26 + (ciphertext[2] - 65)
      inverseMatrix == invertMatrix(keyMatrix)
      size == Len(keyMatrix)
      result == HillBlocks(inverseMatrix, actualCiphertext, size)
      kept == IF paddingLength > 0
              THEN SubSeq(result, 1, Len(result) - paddingLength)
              ELSE result
  IN  HillDecode(kept)

\* keyToString / stringToKey
keyToString(matrix) == JsonStringify(JsonArray(matrix))

----------------------------------------------------------------------------
(* Dispatcher: src/lib/crypto/encryption-manager.ts, lines 67-196          *)

Modes == {"high", "balanced", "lightweight"}

\* The identifiers the switches know.
Algorithms == {"aes", "rsa", "hill", "vigenere", "blowfish", "caesar"}

\* CryptoJS.lib.WordArray.random(n).toString(): two of the hexadecimal strings,
\* written with one digit per 64 bits of key (the real ones have sixteen).
RandomHex(bits) ==
  LET n == bits \div 64
  IN  {[i \in 1..n |-> Ord("a")],
       [i \in 1..n |-> IF i % 2 = 1 THEN Ord("1") ELSE Ord("f")]}

\* vigenere.generateKey(length): two of the uppercase strings, written with one
\* letter per eight of the length asked for.
RandomLetters(length) ==
  LET n == length \div 8
  IN  {[i \in 1..n |-> Ord("K")],
       [i \in 1..n |-> IF i % 2 = 1 THEN Ord("B") ELSE Ord("Z")]}

\* rsa.generateKeyPair(mode), serialized: the key pairs named a and b.
RsaKeyPairs(mode) ==
  {JsonStringify(JsonObject(PublicPem(RsaGetKeySize(mode), id),
                            PrivatePem(RsaGetKeySize(mode), id))) :
     id \in {Ord("a"), Ord("b")}}

\* hill.generateKey(2): the matrices of the universe it can return.
HillKeys == {m \in JsonMatrices : isInvertible(m)}

\* caesar.generateKey(mode): the least and the greatest shift.
CaesarShifts(mode) == {s \in CaesarGenerateKey(mode) : s = 1 \/ s = CaesarMaxShift(mode)}

\* The default case of the switch of generateKey, encrypt and decrypt:
\* a success that hands the caller nothing, in place of the throw.
UnknownAlgorithmIgnored(algorithm) == {Ok(<<>>)}

\* The default case of the switch of generateKey, encrypt and decrypt:
\* throw new Error(`Unknown algorithm: ${algorithm}`).
UnknownAlgorithm(algorithm) == {Err("Unknown algorithm", algorithm)}

\* generateKey: the results the call can have.
generateKey(algorithm, mode) ==
  CASE algorithm = "aes" -> {Ok(k) : k \in RandomHex(AesGetKeySize(mode))}
    [] algorithm = "rsa" -> {Ok(k) : k \in RsaKeyPairs(mode)}
    [] algorithm = "hill" -> {Ok(keyToString(m)) : m \in HillKeys}
    [] algorithm = "vigenere" -> {Ok(k) : k \in RandomLetters(VigenereKeyLength(mode))}
    [] algorithm = "blowfish" -> {Ok(k) : k \in RandomHex(BlowfishGetKeySize(mode))}
    [] algorithm = "caesar" -> {Ok(formatKey(s)) : s \in CaesarShifts(mode)}
    [] OTHER -> UnknownAlgorithm(algorithm)

IsWhiteSpace(c) == c \in {9, 10, 11, 12, 13, 32}

HexValue(c) ==
  IF IsDigit(c) THEN c - 48
  ELSE IF c >= 97 /\ c <= 102 THEN c - 87
  ELSE IF c >= 65 /\ c <= 70 THEN c - 55 ELSE 0 - 1

\* The value of the longest run of radix digits that starts s.
RECURSIVE DigitsValue(_, _, _, _)
DigitsValue(s, radix, i, acc) ==
  IF i > Len(s) \/ HexValue(s[i]) < 0 \/ HexValue(s[i]) >= radix THEN acc
  ELSE DigitsValue(s, radix, i + 1, acc * radix + HexValue(s[i]))

RECURSIVE SkipWhiteSpace(_)
SkipWhiteSpace(s) ==
  IF Len(s) > 0 /\ IsWhiteSpace(s[1]) THEN SkipWhiteSpace(Tail(s)) ELSE s

\* parseInt(s): leading white space, a sign, 0x for radix 16, then the longest
\* run of digits; NaN when there is no digit.
ParseInt(s) ==
  LET t == SkipWhiteSpace(s)
      negative == Len(t) > 0 /\ t[1] = Ord("-")
      u == IF Len(t) > 0 /\ t[1] \in {Ord("-"), Ord("+")} THEN Tail(t) ELSE t
      hex == Len(u) >= 2 /\ u[1] = Ord("0") /\ u[2] \in {Ord("x"), Ord("X")}
      digits == IF hex THEN Drop(u, 2) ELSE u
      radix == IF hex THEN 16 ELSE 10
      none == Len(digits) = 0 \/ HexValue(digits[1]) < 0 \/ HexValue(digits[1]) >= radix
      value == DigitsValue(digits, radix, 1, 0)
  IN  [nan |-> none, value |-> IF none THEN 0 ELSE IF negative THEN 0 - value ELSE value]

ShiftPrefix == S(<<"S", "H", "I", "F", "T", "-">>)

\* The caesar case of encrypt and decrypt: the key checks, then the cipher.
CaesarCase(text, key, isEncrypt) ==
  IF ~StartsWith(key, ShiftPrefix)
  THEN Err("Invalid Caesar key format: must be SHIFT-N where N is a number", "")
  ELSE LET shift == ParseInt(Drop(key, Len(ShiftPrefix)))
       IN  IF shift.nan
           THEN Err("Invalid Caesar key: shift value must be a number", "")
           ELSE Ok(processText(text, shift.value, isEncrypt))

\* !keypair.publicKey || !keypair.privateKey
RsaIncomplete(keypair) ==
  \/ keypair.publicKey \in {Undefined, <<>>}
  \/ keypair.privateKey \in {Undefined, <<>>}

\* hill.encrypt with what JSON.parse returned.  null has no length (TypeError);
\* a number or an object has length undefined: no padding, and the first block
\* calls keyMatrix.map, which is not a function (TypeError).
HillEncryptValue(plaintext, v) ==
  CASE v.type = "array" -> Ok(HillEncrypt(plaintext, v.rows))
    [] v.type = "null" -> Err("TypeError", "Cannot read properties of null")
    [] OTHER -> IF Len(plaintext) = 0 THEN Ok(S(<<"A", "A">>))
                ELSE Err("TypeError", "keyMatrix.map is not a function")

\* hill.decrypt with what JSON.parse returned.  For a number or an object the
\* inverse is the empty matrix and the loop ends after one empty block.
HillDecryptValue(ciphertext, v) ==
  CASE v.type = "array" -> Ok(HillDecrypt(ciphertext, v.rows))
    [] v.type = "null" -> Err("TypeError", "Cannot read properties of null")
    [] OTHER -> Ok(<<>>)

InvalidRsaKeyFormat ==
  "Invalid RSA key format: must be valid JSON with publicKey and privateKey"

\* The rsa case of encrypt: the catch replaces every error thrown in the try,
\* the adapter's included.
RsaEncryptCase(plaintext, key) ==
  IF ~JsonValid(key) THEN Err(InvalidRsaKeyFormat, "")
  ELSE LET keypair == JsonParse(key)
       IN  IF keypair.type = "null" THEN Err(InvalidRsaKeyFormat, "")
           ELSE IF RsaIncomplete(keypair) THEN Err(InvalidRsaKeyFormat, "")
           ELSE IF ~RsaEncrypt(plaintext, keypair.publicKey).ok
                THEN Err(InvalidRsaKeyFormat, "")
                ELSE RsaEncrypt(plaintext, keypair.publicKey)

\* encrypt: the results the call can have.
encrypt(plaintext, algorithm, key, mode) ==
  CASE algorithm = "aes" -> {AesEncrypt(plaintext, key, mode)}
    [] algorithm = "rsa" -> {RsaEncryptCase(plaintext, key)}
    [] algorithm = "hill" ->
         {IF ~JsonValid(key) THEN Err("SyntaxError", "Unexpected token")
          ELSE HillEncryptValue(plaintext, JsonParse(key))}
    [] algorithm = "vigenere" -> {VigenereEncrypt(plaintext, key)}
    [] algorithm = "blowfish" -> {BlowfishEncrypt(plaintext, key)}
    [] algorithm = "caesar" -> {CaesarCase(plaintext, key, TRUE)}
    [] OTHER -> UnknownAlgorithm(algorithm)

\* key.trim() === ""
IsBlank(key) == \A i \in 1..Len(key) : IsWhiteSpace(key[i])

\* The rsa case of decrypt: the catch turns a SyntaxError into the corrupted-key
\* error and rethrows every other error.
RsaDecryptCase(ciphertext, key) ==
  IF IsBlank(key) THEN Err("RSA key is missing. Please regenerate keys.", "")
  ELSE IF ~JsonValid(key) THEN Err("RSA key is corrupted. Please regenerate keys.", "")
  ELSE LET keypair == JsonParse(key)
       IN  IF keypair.type = "null"
           THEN Err("TypeError", "Cannot read properties of null")
           ELSE IF RsaIncomplete(keypair)
                THEN Err("RSA key is incomplete. Please regenerate keys.", "")
                ELSE RsaDecrypt(ciphertext, keypair.privateKey)

\* decrypt: the results the call can have.
decrypt(ciphertext, algorithm, key, mode) ==
  CASE algorithm = "aes" -> AesDecrypt(ciphertext, key, mode)
    [] algorithm = "rsa" -> {RsaDecryptCase(ciphertext, key)}
    [] algorithm = "hill" ->
         {IF ~JsonValid(key) THEN Err("SyntaxError", "Unexpected token")
          ELSE HillDecryptValue(ciphertext, JsonParse(key))}
    [] algorithm = "vigenere" -> {VigenereDecrypt(ciphertext, key)}
    [] algorithm = "blowfish" -> BlowfishDecrypt(ciphertext, key)
    [] algorithm = "caesar" -> {CaesarCase(ciphertext, key, FALSE)}
    [] OTHER -> UnknownAlgorithm(algorithm)

\* new Blob([text]).size: the length of the text in UTF-8.
BlobSize(text) ==
  SumTo([i \in 1..Len(text) |->
          IF text[i] < 128 THEN 1 ELSE IF text[i] < 2048 THEN 2 ELSE 3], Len(text))

\* The performance sample of measurePerformance, without the clock and the heap.
Sample(text) == [dataSize |-> BlobSize(text)]

----------------------------------------------------------------------------
(* Security-mode policy: encryption-manager.ts, lines 25-41                *)

\* The chains of the test plan (lines 364-367), which still have hill.
getRecommendedAlgorithmsTestPlan(mode) ==
  CASE mode = "high" -> <<"aes", "rsa", "hill", "vigenere", "blowfish">>
    [] mode = "balanced" -> <<"aes", "hill", "vigenere">>
    [] mode = "lightweight" -> <<"caesar", "vigenere">>
    [] OTHER -> <<"aes">>

getRecommendedAlgorithms(mode) ==
  CASE mode = "high" -> <<"aes", "rsa", "vigenere", "blowfish", "caesar">>
    [] mode = "balanced" -> <<"aes", "vigenere", "blowfish">>
    [] mode = "lightweight" -> <<"caesar", "vigenere">>
    [] OTHER -> <<"aes">>

----------------------------------------------------------------------------
(* Layer pipeline: encryption-manager.ts, lines 237-357.  `run` is the one *)
(* invocation in progress; `prev` is the encryption that completed before  *)
(* it, whose result a decryption may be given.                             *)

\* toUpperCase() of an algorithm identifier or a mode.
toUpperCase(name) ==
  CASE name = "aes" -> "AES"
    [] name = "rsa" -> "RSA"
    [] name = "hill" -> "HILL"
    [] name = "vigenere" -> "VIGENERE"
    [] name = "blowfish" -> "BLOWFISH"
    [] name = "caesar" -> "CAESAR"
    [] name = "des" -> "DES"
    [] name = "high" -> "HIGH"
    [] name = "balanced" -> "BALANCED"
    [] name = "lightweight" -> "LIGHTWEIGHT"

\* keys[algorithm], Undefined when the map has no such property.
Lookup(keys, algorithm) ==
  IF algorithm \in DOMAIN keys THEN keys[algorithm] ELSE Undefined

\* !key
Falsy(key) == key = Undefined \/ key = <<>>

\* keys[algorithm] = key
Store(keys, algorithm, key) ==
  [a \in DOMAIN keys \cup {algorithm} |-> IF a = algorithm THEN key ELSE keys[a]]

EmptyMap == [a \in {} |-> <<>>]

\* The error an invocation ended with.
NoError ==
  [msg |-> "", cause |-> "", layer |-> 0, total |-> 0, algorithm |-> "",
   mode |-> "", missing |-> <<>>]

\* An error of the dispatcher that leaves multiLayerEncrypt as it was thrown.
Thrown(out) == [NoError EXCEPT !.msg = out.msg, !.cause = out.cause]

\* The error multiLayerDecrypt throws for a failed layer: the layer's position
\* in processing order, the number of layers, the algorithm and the mode in
\* upper case, and the error caught.
LayerError(out, layer, total, algorithm, mode) ==
  [NoError EXCEPT !.msg = "Decryption failed at", !.cause = out.msg,
                  !.layer = layer, !.total = total,
                  !.algorithm = toUpperCase(algorithm),
                  !.mode = toUpperCase(mode)]

\* The error for the algorithms that have no key.
MissingKeysError(missing) ==
  [NoError EXCEPT !.msg = "Missing keys for", !.missing = missing]

\* One call of the dispatcher, as the invocation made it.
Call(fn, algorithm, key, input, mode, out) ==
  [fn |-> fn, algorithm |-> algorithm, key |-> key, input |-> input,
   mode |-> mode, out |-> out]

IdleRun ==
  [op |-> "none", state |-> "Idle", input |-> <<>>, algorithms |-> <<>>,
   mode |-> "high", argKeys |-> EmptyMap, i |-> 0, text |-> <<>>,
   keys |-> EmptyMap, metrics |-> <<>>, layers |-> <<>>, error |-> NoError,
   calls |-> <<>>, roundTrip |-> FALSE]

NoPrev ==
  [valid |-> FALSE, plaintext |-> <<>>, algorithms |-> <<>>, mode |-> "high",
   existingKeys |-> EmptyMap, encrypted |-> <<>>, keys |-> EmptyMap]

\* multiLayerEncrypt, lines 243-246: the locals before the loop.
BeginEncrypt(plaintext, algorithms, mode, existingKeys) ==
  [IdleRun EXCEPT !.op = "encrypt", !.state = "Running", !.input = plaintext,
                  !.algorithms = algorithms, !.mode = mode,
                  !.argKeys = existingKeys, !.i = 0, !.text = plaintext]

\* The algorithm of an iteration that takes the chain from its far end.
EncryptLayerAlgorithmReversed(r) == r.algorithms[Len(r.algorithms) - r.i]

\* The algorithm of one iteration of multiLayerEncrypt: algorithms[i] (line 254).
EncryptLayerAlgorithm(r) == r.algorithms[r.i + 1]

\* The key of one iteration (line 259): the caller's when it is truthy, else
\* one that generateKey returns or the error it throws.
LayerKeys(r) ==
  LET algorithm == EncryptLayerAlgorithm(r)
  IN  IF ~Falsy(Lookup(r.argKeys, algorithm))
      THEN {Ok(Lookup(r.argKeys, algorithm))}
      ELSE generateKey(algorithm, r.mode)

\* An iteration that stores the key in the caller's key map as well.
EncryptIterationWritesArgument(r, k, out) ==
  LET algorithm == EncryptLayerAlgorithm(r)
      generated == Falsy(Lookup(r.argKeys, algorithm))
      genCall == IF generated
                 THEN <<Call("generateKey", algorithm, <<>>, <<>>, r.mode, k)>>
                 ELSE <<>>
      encCall == Call("encrypt", algorithm, k.value, r.text, r.mode, out)
  IN  IF ~k.ok
      THEN [r EXCEPT !.state = "Failed", !.error = Thrown(k),
                     !.calls = r.calls \o genCall]
      ELSE IF ~out.ok
      THEN [r EXCEPT !.state = "Failed", !.error = Thrown(out),
                     !.calls = r.calls \o genCall \o <<encCall>>]
      ELSE [r EXCEPT !.text = out.value,
                     !.keys = Store(r.keys, algorithm, k.value),
                     !.argKeys = Store(r.argKeys, algorithm, k.value),
                     !.metrics = Append(r.metrics, Sample(r.text)),
                     !.layers = Append(r.layers,
                                  [algorithm |-> algorithm, key |-> k.value,
                                   order |-> r.i + 1]),
                     !.i = r.i + 1,
                     !.calls = r.calls \o genCall \o <<encCall>>]

\* One iteration of the loop of multiLayerEncrypt (lines 253-278) with the key
\* result k and the encrypt result out.
EncryptIteration(r, k, out) ==
  LET algorithm == EncryptLayerAlgorithm(r)
      generated == Falsy(Lookup(r.argKeys, algorithm))
      genCall == IF generated
                 THEN <<Call("generateKey", algorithm, <<>>, <<>>, r.mode, k)>>
                 ELSE <<>>
      encCall == Call("encrypt", algorithm, k.value, r.text, r.mode, out)
  IN  IF ~k.ok
      THEN [r EXCEPT !.state = "Failed", !.error = Thrown(k),
                     !.calls = r.calls \o genCall]
      ELSE IF ~out.ok
      THEN [r EXCEPT !.state = "Failed", !.error = Thrown(out),
                     !.calls = r.calls \o genCall \o <<encCall>>]
      ELSE [r EXCEPT !.text = out.value,
                     !.keys = Store(r.keys, algorithm, k.value),
                     !.metrics = Append(r.metrics, Sample(r.text)),
                     !.layers = Append(r.layers,
                                  [algorithm |-> algorithm, key |-> k.value,
                                   order |-> r.i + 1]),
                     !.i = r.i + 1,
                     !.calls = r.calls \o genCall \o <<encCall>>]

\* A check that stops at the first algorithm without a key.
missingKeysFirstOnly(algorithms, keys) ==
  LET all == SelectSeq(algorithms, LAMBDA a : Falsy(Lookup(keys, a)))
  IN  IF Len(all) = 0 THEN <<>> ELSE <<toUpperCase(all[1])>>

\* The algorithms without a truthy key, in chain order and in upper case
\* (lines 294-299).
missingKeys(algorithms, keys) ==
  LET all == SelectSeq(algorithms, LAMBDA a : Falsy(Lookup(keys, a)))
  IN  [n \in 1..Len(all) |-> toUpperCase(all[n])]

\* A multiLayerDecrypt that leaves each key to be looked at when its layer is
\* reached.
BeginDecryptLazy(ciphertext, algorithms, keys, mode) ==
  [IdleRun EXCEPT !.op = "decrypt", !.input = ciphertext,
                  !.algorithms = algorithms, !.mode = mode, !.argKeys = keys,
                  !.state = "Running", !.i = Len(algorithms) - 1,
                  !.text = ciphertext]

\* multiLayerDecrypt, lines 293-306: the key check, then the locals.
BeginDecrypt(ciphertext, algorithms, keys, mode) ==
  LET r == [IdleRun EXCEPT !.op = "decrypt", !.input = ciphertext,
                           !.algorithms = algorithms, !.mode = mode,
                           !.argKeys = keys]
  IN  IF Len(missingKeys(algorithms, keys)) > 0
      THEN [r EXCEPT !.state = "Failed",
                     !.error = MissingKeysError(missingKeys(algorithms, keys))]
      ELSE [r EXCEPT !.state = "Running", !.i = Len(algorithms) - 1,
                     !.text = ciphertext]

\* The algorithm of an iteration that takes the chain from its near end.
DecryptLayerAlgorithmForward(r) == r.algorithms[Len(r.algorithms) - r.i]

\* The algorithm of one iteration of multiLayerDecrypt: algorithms[i] (line 313).
DecryptLayerAlgorithm(r) == r.algorithms[r.i + 1]

\* The chain index in place of the processing position.
DecryptLayerOrderChainIndex(r) == r.i + 1

\* The order of the layer entry of one iteration: algorithms.length - i
\* (line 329).
DecryptLayerOrder(r) == Len(r.algorithms) - r.i

\* An iteration that goes on to the next layer when decrypt has failed.
DecryptIterationContinues(r, out) ==
  LET algorithm == DecryptLayerAlgorithm(r)
      key == Lookup(r.argKeys, algorithm)
      decCall == Call("decrypt", algorithm, key, r.text, r.mode, out)
  IN  IF ~out.ok
      THEN [r EXCEPT !.i = r.i - 1, !.calls = Append(r.calls, decCall)]
      ELSE [r EXCEPT !.text = out.value,
                     !.metrics = Append(r.metrics, Sample(r.text)),
                     !.layers = Append(r.layers,
                                  [algorithm |-> algorithm, key |-> key,
                                   order |-> DecryptLayerOrder(r)]),
                     !.i = r.i - 1,
                     !.calls = Append(r.calls, decCall)]

\* One iteration of the loop of multiLayerDecrypt (lines 312-351) with the
\* decrypt result out.
DecryptIteration(r, out) ==
  LET algorithm == DecryptLayerAlgorithm(r)
      key == Lookup(r.argKeys, algorithm)
      decCall == Call("decrypt", algorithm, key, r.text, r.mode, out)
  IN  IF ~out.ok
      THEN [r EXCEPT !.state = "Failed",
                     !.error = LayerError(out, Len(r.algorithms) - r.i,
                                          Len(r.algorithms), algorithm, r.mode),
                     !.calls = Append(r.calls, decCall)]
      ELSE [r EXCEPT !.text = out.value,
                     !.metrics = Append(r.metrics, Sample(r.text)),
                     !.layers = Append(r.layers,
                                  [algorithm |-> algorithm, key |-> key,
                                   order |-> DecryptLayerOrder(r)]),
                     !.i = r.i - 1,
                     !.calls = Append(r.calls, decCall)]

----------------------------------------------------------------------------
(* The inputs the pipeline is run on                                       *)

\* The longest plaintext drawn from TextChars.
MaxTextLen == 1

\* An upper-case letter, a lower-case letter and a character that is no letter.
TextChars == {Ord("A"), Ord("z"), Ord(" ")}

HelloWorld == S(<<"H", "e", "l", "l", "o", " ", "W", "o", "r", "l", "d">>)

Plaintexts == StringsUpTo(TextChars, MaxTextLen)

Shift7 == S(<<"S", "H", "I", "F", "T", "-", "7">>)
KeyKEY == S(<<"K", "E", "Y">>)

\* The key map of the specification's scenario.
ScenarioKeys == [a \in {"caesar", "vigenere"} |-> IF a = "caesar" THEN Shift7 ELSE KeyKEY]

\* A key map with one entry.
OneKey(algorithm, key) == [a \in {algorithm} |-> key]

\* Keys that are not what their algorithm expects.
BadKeys(algorithm) ==
  CASE algorithm = "rsa" ->
         {KeyKEY, S(<<"n", "u", "l", "l">>),
          JsonStringify(JsonObject(PublicPem(1024, Ord("a")), Undefined)),
          JsonStringify(JsonObject(PrivatePem(1024, Ord("a")), PrivatePem(1024, Ord("a"))))}
    [] algorithm = "caesar" ->
         {KeyKEY, S(<<"S", "H", "I", "F", "T", "-", "x">>),
          S(<<"S", "H", "I", "F", "T", "-", "7", "x">>)}
    [] algorithm = "hill" -> {KeyKEY, JsonStringify(JsonArray(<<<<2, 4>>, <<6, 8>>>>)),
                              JsonStringify(JsonNumber(5))}
    [] OTHER -> {}

\* The chains and caller's key maps multiLayerEncrypt is called with: the
\* recommended chain with no keys and, in the modes with the shorter chains,
\* with some keys and with an empty key; the scenario; the empty chain; a chain
\* that repeats an algorithm; chains with hill and with an identifier that is
\* no algorithm; single layers with keys that are not what the algorithm
\* expects.
EncryptScenarios(mode) ==
  {[algorithms |-> getRecommendedAlgorithms(mode), existingKeys |-> m] :
      m \in IF mode = "high" THEN {EmptyMap}
            ELSE {EmptyMap, OneKey("vigenere", KeyKEY), OneKey("vigenere", <<>>)}}
    \cup {[algorithms |-> c, existingKeys |-> EmptyMap] :
            c \in {<<>>, <<"caesar", "caesar">>, <<"hill", "caesar">>,
                   <<"vigenere", "des", "caesar">>, <<"blowfish">>}}
    \cup {[algorithms |-> <<"caesar", "vigenere">>, existingKeys |-> ScenarioKeys],
          [algorithms |-> <<"caesar", "des">>, existingKeys |-> OneKey("des", KeyKEY)]}
    \cup UNION {{[algorithms |-> <<a>>, existingKeys |-> OneKey(a, k)] :
                   k \in BadKeys(a)} : a \in {"rsa", "caesar", "hill"}}

\* The plaintexts a chain is run on: "Hello World" belongs to the scenario.
ScenarioPlaintexts(sc) ==
  IF sc.existingKeys = ScenarioKeys THEN Plaintexts \cup {HelloWorld} ELSE Plaintexts

\* The algorithms of a chain.
Range(seq) == {seq[i] : i \in 1..Len(seq)}

\* The most keys taken out of a key map at once.
MaxMissing == 2

\* The keys an algorithm's key is replaced with.
OtherKeys(algorithm, mode, key) ==
  {o.value : o \in {o \in generateKey(algorithm, mode) : o.ok /\ o.value # key}}
    \cup BadKeys(algorithm)

\* The key maps multiLayerDecrypt is given for a completed encryption, besides
\* the returned one: some keys taken out, one key emptied, one key replaced.
AlteredKeys(p) ==
  {[a \in DOMAIN p.keys \ D |-> p.keys[a]] :
      D \in {D \in SUBSET DOMAIN p.keys : D # {} /\ Cardinality(D) <= MaxMissing}}
    \cup {Store(p.keys, a, <<>>) : a \in DOMAIN p.keys}
    \cup UNION {{Store(p.keys, a, k) : k \in OtherKeys(a, p.mode, p.keys[a])} :
                  a \in DOMAIN p.keys}

\* The calls of multiLayerDecrypt that are given no earlier result.
DecryptScenarios ==
  {[ciphertext |-> S(<<"A", "z">>), algorithms |-> <<"caesar", "des">>,
    keys |-> Store(OneKey("des", KeyKEY), "caesar", Shift7)],
   [ciphertext |-> S(<<"A", "z">>), algorithms |-> <<"caesar", "des", "aes">>,
    keys |-> Store(OneKey("des", <<>>), "caesar", Shift7)],
   [ciphertext |-> <<>>, algorithms |-> <<"rsa">>,
    keys |-> OneKey("rsa", <<>>)],
   [ciphertext |-> S(<<"A", "z">>), algorithms |-> <<>>, keys |-> EmptyMap]}

----------------------------------------------------------------------------
(* Specification                                                           *)

Init ==
  /\ run = IdleRun
  /\ prev = NoPrev

\* A call of multiLayerEncrypt.
StartEncrypt ==
  /\ run.state = "Idle"
  /\ \E mode \in Modes :
       \E sc \in EncryptScenarios(mode) :
         \E plaintext \in ScenarioPlaintexts(sc) :
           run' = BeginEncrypt(plaintext, sc.algorithms, mode, sc.existingKeys)
  /\ prev' = NoPrev

\* One layer of the encryption loop.
EncryptLayer ==
  /\ run.op = "encrypt" /\ run.state = "Running"
  /\ run.i < Len(run.algorithms)
  /\ \E k \in LayerKeys(run) :
       \E out \in (IF k.ok
                   THEN encrypt(run.text, EncryptLayerAlgorithm(run), k.value, run.mode)
                   ELSE {k}) :
         run' = EncryptIteration(run, k, out)
  /\ UNCHANGED prev

\* multiLayerEncrypt returns { encrypted, keys, metrics, layers }.
EncryptReturn ==
  /\ run.op = "encrypt" /\ run.state = "Running"
  /\ run.i >= Len(run.algorithms)
  /\ run' = [run EXCEPT !.state = "Complete"]
  /\ prev' = [valid |-> TRUE, plaintext |-> run.input, algorithms |-> run.algorithms,
              mode |-> run.mode, existingKeys |-> run.argKeys,
              encrypted |-> run.text, keys |-> run.keys]

\* A call of multiLayerDecrypt on the result of the encryption, with the same
\* chain, the returned keys and the same mode.
DecryptResult ==
  /\ run.op = "encrypt" /\ run.state = "Complete"
  /\ run' = [BeginDecrypt(prev.encrypted, prev.algorithms, prev.keys, prev.mode)
               EXCEPT !.roundTrip = TRUE]
  /\ UNCHANGED prev

\* A call of multiLayerDecrypt on the result of the encryption with another key
\* map or another mode.
DecryptAltered ==
  /\ run.op = "encrypt" /\ run.state = "Complete"
  /\ \/ \E keys \in AlteredKeys(prev) :
          run' = BeginDecrypt(prev.encrypted, prev.algorithms, keys, prev.mode)
     \/ \E mode \in Modes \ {prev.mode} :
          run' = BeginDecrypt(prev.encrypted, prev.algorithms, prev.keys, mode)
  /\ UNCHANGED prev

\* A call of multiLayerDecrypt on a text of the caller's.
StartDecrypt ==
  /\ run.state = "Idle"
  /\ \E mode \in Modes, sc \in DecryptScenarios :
       run' = BeginDecrypt(sc.ciphertext, sc.algorithms, sc.keys, mode)
  /\ UNCHANGED prev

\* One layer of the decryption loop.
DecryptLayer ==
  /\ run.op = "decrypt" /\ run.state = "Running"
  /\ run.i >= 0
  /\ \E out \in decrypt(run.text, DecryptLayerAlgorithm(run),
                        Lookup(run.argKeys, DecryptLayerAlgorithm(run)), run.mode) :
       run' = DecryptIteration(run, out)
  /\ UNCHANGED prev

\* multiLayerDecrypt returns { decrypted, metrics, layers }.
DecryptReturn ==
  /\ run.op = "decrypt" /\ run.state = "Running"
  /\ run.i < 0
  /\ run' = [run EXCEPT !.state = "Complete"]
  /\ UNCHANGED prev

\* The caller is done with the result or the error.
Reset ==
  /\ run.state \in {"Complete", "Failed"}
  /\ run' = IdleRun
  /\ prev' = NoPrev

Next ==
  \/ StartEncrypt
  \/ EncryptLayer
  \/ EncryptReturn
  \/ DecryptResult
  \/ DecryptAltered
  \/ StartDecrypt
  \/ DecryptLayer
  \/ DecryptReturn
  \/ Reset

Spec == Init /\ [][Next]_vars

----------------------------------------------------------------------------
(* Properties of the layer pipeline                                        *)

\* The calls of one dispatcher function in the log of an invocation.
CallsOf(r, fn) == SelectSeq(r.calls, LAMBDA c : c.fn = fn)

\* The chain has an algorithm with no truthy key in the caller's map.
LacksKey(r) == \E n \in 1..Len(r.algorithms) : Falsy(Lookup(r.argKeys, r.algorithms[n]))

\* The encryption that completed was run on a mode's recommended chain, or on
\* the specification's scenario.
RecommendedRun(p) ==
  \/ p.algorithms = getRecommendedAlgorithms(p.mode)
  \/ /\ p.algorithms = <<"caesar", "vigenere">>
     /\ p.existingKeys = ScenarioKeys

C2_DecryptReverseOrder ==
  run.op = "decrypt" =>
    LET N == Len(run.algorithms)
    IN  /\ Len(run.calls) <= N
        /\ \A k \in 1..Len(run.calls) :
             /\ run.calls[k].fn = "decrypt"
             /\ run.calls[k].algorithm = run.algorithms[N - k + 1]
             /\ run.calls[k].key = Lookup(run.argKeys, run.algorithms[N - k + 1])
             /\ run.calls[k].mode = run.mode
             /\ run.calls[k].input =
                  IF k = 1 THEN run.input ELSE run.calls[k - 1].out.value
             /\ k > 1 => run.calls[k - 1].out.ok

\* A decryption of a chain of five different algorithms has made all its calls,
\* each on a text that differs from the text given to the call before it.
C2_Witness ==
  /\ run.op = "decrypt" /\ run.state = "Complete"
  /\ Len(run.algorithms) = 5 /\ Len(run.calls) = 5
  /\ run.algorithms[1] # run.algorithms[5]
  /\ \A k \in 2..5 : run.calls[k].input # run.calls[k - 1].input

\* C3: the k-th call of encrypt that multiLayerEncrypt makes is for
\* algorithms[k], its input is the plaintext for k = 1 and else the output of
\* call k-1; when the invocation returns it has made N calls and its
\* ciphertext is the output of call N, or the plaintext when N = 0.
C3_EncryptChainOrder ==
  run.op = "encrypt" =>
    LET N == Len(run.algorithms)
        calls == CallsOf(run, "encrypt")
    IN  /\ Len(calls) <= N
        /\ \A k \in 1..Len(calls) :
             /\ calls[k].algorithm = run.algorithms[k]
             /\ calls[k].mode = run.mode
             /\ calls[k].input = IF k = 1 THEN run.input ELSE calls[k - 1].out.value
             /\ k > 1 => calls[k - 1].out.ok
        /\ run.state = "Complete" =>
             /\ Len(calls) = N
             /\ run.text = IF N = 0 THEN run.input ELSE calls[N].out.value

\* An encryption over three different layers has returned, and each layer
\* changed the text.
C3_Witness ==
  /\ run.op = "encrypt" /\ run.state = "Complete"
  /\ Len(run.algorithms) = 3 /\ run.algorithms[1] # run.algorithms[3]
  /\ LET calls == CallsOf(run, "encrypt")
     IN  /\ Len(calls) = 3
         /\ \A k \in 1..3 : calls[k].out.value # calls[k].input

\* C4: multiLayerDecrypt given a key map in which some algorithm of the chain
\* has no key, or an empty one, fails with the missing-keys error, and the
\* error names every such algorithm of the chain and no other.
C4_MissingKeysNamesAll ==
  (run.op = "decrypt" /\ LacksKey(run)) =>
    /\ run.state = "Failed"
    /\ run.error.msg = "Missing keys for"
    /\ Range(run.error.missing) =
         {toUpperCase(a) : a \in {a \in Range(run.algorithms) :
                                    Falsy(Lookup(run.argKeys, a))}}

\* A decryption has failed for two algorithms, one whose key is absent and one
\* whose key is the empty string, while the chain's first algorithm has a key.
C4_Witness ==
  /\ run.op = "decrypt" /\ run.state = "Failed"
  /\ Len(run.error.missing) = 2
  /\ ~Falsy(Lookup(run.argKeys, run.algorithms[1]))
  /\ \E a \in Range(run.algorithms) : Lookup(run.argKeys, a) = Undefined
  /\ \E a \in Range(run.algorithms) : Lookup(run.argKeys, a) = <<>>

\* C5: multiLayerDecrypt given a key map in which some algorithm of the chain
\* has no key fails before any work: it has called decrypt for no layer and
\* has no performance sample and no layer entry, wherever in the chain the
\* algorithm without a key stands.
C5_KeysCheckedUpFront ==
  (run.op = "decrypt" /\ LacksKey(run)) =>
    /\ run.state = "Failed"
    /\ run.calls = <<>>
    /\ run.metrics = <<>>
    /\ run.layers = <<>>

\* A decryption has failed with no call made although only the chain's first
\* algorithm, the last to be processed, has no key.
C5_Witness ==
  /\ run.op = "decrypt" /\ run.state = "Failed" /\ run.calls = <<>>
  /\ Len(run.algorithms) >= 3
  /\ Falsy(Lookup(run.argKeys, run.algorithms[1]))
  /\ \A n \in 2..Len(run.algorithms) : ~Falsy(Lookup(run.argKeys, run.algorithms[n]))

\* C6: in multiLayerDecrypt a call of decrypt that failed is the last call of
\* the invocation (no later layer is tried, the layer is not tried again), the
\* invocation is Failed and never Complete, it has a layer entry and a sample
\* only for the layers before, and its error carries the layer's position in
\* processing order, the number of layers, the layer's algorithm and the mode.
C6_DecryptFailureAborts ==
  (run.op = "decrypt" /\ Len(run.calls) > 0) =>
    LET n == Len(run.calls)
        last == run.calls[n]
    IN  /\ \A k \in 1..(n - 1) : run.calls[k].out.ok
        /\ ~last.out.ok =>
             /\ run.state = "Failed"
             /\ run.error.msg = "Decryption failed at"
             /\ run.error.cause = last.out.msg
             /\ run.error.layer = n
             /\ run.error.total = Len(run.algorithms)
             /\ run.error.algorithm = toUpperCase(last.algorithm)
             /\ run.error.mode = toUpperCase(run.mode)
             /\ Len(run.layers) = n - 1
             /\ Len(run.metrics) = n - 1
        /\ run.state = "Complete" => last.out.ok

\* A decryption of five layers has failed at its fourth call, after three
\* layers that succeeded and with one layer left.
C6_Witness ==
  /\ run.op = "decrypt" /\ run.state = "Failed"
  /\ Len(run.algorithms) = 5 /\ Len(run.calls) = 4
  /\ ~run.calls[4].out.ok
  /\ run.error.layer = 4 /\ run.error.algorithm = "RSA"

\* C7: in multiLayerEncrypt every call of encrypt is made with the caller's
\* key for the algorithm when there is one and else with the key generateKey
\* returned for it, and when the invocation returns, its keys map holds for
\* every call of encrypt exactly the key the call was made with.
C7_ReturnedKeysAreKeysUsed ==
  run.op = "encrypt" =>
    LET calls == CallsOf(run, "encrypt")
    IN  /\ \A k \in 1..Len(calls) :
             \/ /\ ~Falsy(Lookup(run.argKeys, calls[k].algorithm))
                /\ calls[k].key = Lookup(run.argKeys, calls[k].algorithm)
             \/ /\ Falsy(Lookup(run.argKeys, calls[k].algorithm))
                /\ \E g \in 1..Len(run.calls) :
                     /\ run.calls[g].fn = "generateKey"
                     /\ run.calls[g].algorithm = calls[k].algorithm
                     /\ run.calls[g].mode = run.mode
                     /\ run.calls[g].out = Ok(calls[k].key)
        /\ run.state = "Complete" =>
             /\ DOMAIN run.keys = Range(run.algorithms)
             /\ \A k \in 1..Len(calls) :
                  Lookup(run.keys, calls[k].algorithm) = calls[k].key

\* C8: when multiLayerEncrypt or multiLayerDecrypt returns for a chain of N
\* algorithms it has N layer entries and N samples; entry j has order j and
\* the algorithm and the key of the j-th call of the cipher, which is for
\* algorithms[j] in encryption and for algorithms[N-j+1] in decryption.
C8_LayerManifest ==
  run.state = "Complete" =>
    LET N == Len(run.algorithms)
        calls == CallsOf(run, run.op)
    IN  /\ Len(run.layers) = N
        /\ Len(run.metrics) = N
        /\ Len(calls) = N
        /\ \A j \in 1..N :
             /\ run.layers[j].order = j
             /\ run.layers[j].algorithm = calls[j].algorithm
             /\ run.layers[j].key = calls[j].key
             /\ run.layers[j].algorithm =
                  IF run.op = "encrypt" THEN run.algorithms[j]
                  ELSE run.algorithms[N - j + 1]
             /\ run.metrics[j] = Sample(calls[j].input)

\* A decryption of five different layers has returned its manifest.
C8_Witness ==
  /\ run.op = "decrypt" /\ run.state = "Complete"
  /\ Len(run.layers) = 5
  /\ run.layers[1].algorithm # run.layers[5].algorithm
  /\ run.layers[1].algorithm = run.algorithms[5]

\* C9: every call of generateKey, encrypt or decrypt for an identifier that is
\* none of aes, rsa, hill, vigenere, blowfish, caesar fails with the
\* unknown-algorithm error that carries the identifier; this holds for the
\* calls the pipeline makes and for every mode, text and key of the model.
C9_UnknownAlgorithm ==
  /\ \A k \in 1..Len(run.calls) :
       run.calls[k].algorithm \notin Algorithms =>
         run.calls[k].out = Err("Unknown algorithm", run.calls[k].algorithm)
  /\ \A mode \in Modes :
       /\ generateKey("des", mode) = {Err("Unknown algorithm", "des")}
       /\ \A text \in Plaintexts, key \in {KeyKEY, Shift7, <<>>} :
            /\ encrypt(text, "des", key, mode) = {Err("Unknown algorithm", "des")}
            /\ decrypt(text, "des", key, mode) = {Err("Unknown algorithm", "des")}

\* An encryption has called encrypt with the caller's key for an identifier
\* that is no algorithm, after a layer that succeeded, and has failed.
C9_Witness ==
  /\ run.op = "encrypt" /\ run.state = "Failed"
  /\ Len(run.calls) >= 2
  /\ run.calls[Len(run.calls)].fn = "encrypt"
  /\ run.calls[Len(run.calls)].algorithm = "des"
  /\ run.error.msg = "Unknown algorithm"

\* The error kinds of the rsa key checks, by the message the code gives them.
IsCorruptKey(out) ==
  /\ ~out.ok
  /\ out.msg \in {"RSA key is corrupted. Please regenerate keys.", InvalidRsaKeyFormat}

IsIncompleteKey(out) ==
  /\ ~out.ok
  /\ out.msg = "RSA key is incomplete. Please regenerate keys."

\* C10: every call of encrypt or decrypt for rsa with a key that is not JSON
\* fails with the corrupt-key error, and with a key that is JSON without a
\* publicKey or without a privateKey fails with the incomplete-key error,
\* which is another error than the corrupt-key one.
C10_RsaKeyValidated ==
  \A k \in 1..Len(run.calls) :
    LET c == run.calls[k]
    IN  (c.algorithm = "rsa" /\ c.fn \in {"encrypt", "decrypt"}) =>
          /\ ~JsonValid(c.key) => IsCorruptKey(c.out)
          /\ (JsonValid(c.key) /\ JsonParse(c.key).type = "object"
                /\ RsaIncomplete(JsonParse(c.key))) => IsIncompleteKey(c.out)

\* The whole key is SHIFT- and an integer: an optional sign, then digits only.
IsShiftKey(key) ==
  /\ StartsWith(key, ShiftPrefix)
  /\ LET rest == Drop(key, Len(ShiftPrefix))
         digits == IF Len(rest) > 0 /\ rest[1] = Ord("-") THEN Tail(rest) ELSE rest
     IN  /\ Len(digits) > 0
         /\ \A n \in 1..Len(digits) : IsDigit(digits[n])

\* The key-format errors of the caesar case.
IsInvalidCaesarKey(out) ==
  /\ ~out.ok
  /\ out.msg \in {"Invalid Caesar key format: must be SHIFT-N where N is a number",
                  "Invalid Caesar key: shift value must be a number"}

\* C11: every call of encrypt or decrypt for caesar with a key that is not, as
\* a whole, SHIFT- and an integer fails with the key-format error; the cipher
\* returns a text only for a key of that form.
C11_CaesarKeyWholeMatch ==
  \A k \in 1..Len(run.calls) :
    LET c == run.calls[k]
    IN  (c.algorithm = "caesar" /\ c.fn \in {"encrypt", "decrypt"}
           /\ ~IsShiftKey(c.key)) => IsInvalidCaesarKey(c.out)

\* The key deserializes to a square matrix of integers.
IsSquareMatrixKey(key) ==
  /\ JsonValid(key)
  /\ JsonParse(key).type = "array"
  /\ LET rows == JsonParse(key).rows
     IN  /\ Len(rows) > 0
         /\ \A r \in 1..Len(rows) :
              /\ Len(rows[r]) = Len(rows)
              /\ \A n \in 1..Len(rows[r]) : rows[r][n] \in Int

\* C12: every call of encrypt or decrypt for hill with a key that does not
\* deserialize to a square matrix of integers fails; it returns no text.
C12_HillKeyValidated ==
  \A k \in 1..Len(run.calls) :
    LET c == run.calls[k]
    IN  (c.algorithm = "hill" /\ c.fn \in {"encrypt", "decrypt"}
           /\ ~IsSquareMatrixKey(c.key)) => ~c.out.ok

----------------------------------------------------------------------------
(* The Hill cipher called by itself: hill.ts, lines 82-183.  `run` is the  *)
(* one call in progress: the text and the key matrix it was given and what *)
(* encrypt, decrypt and invertMatrix have returned so far.                 *)

\* The longest text a cipher is called with by itself.
MaxTrialLen == 2

\* Character codes of the range the 3-letter encoding holds: the least, the
\* greatest, a space and two letters.
HillChars == {0, Ord(" "), Ord("A"), Ord("z"), 17575}

HillTexts == StringsUpTo(HillChars, MaxTrialLen)

\* Key matrices: 2x2 ones that are invertible modulo 26 (the first is the
\* fallback of generateKey) and ones that are not, a 3x3 and a 4x4 one.
HillMatrices ==
  {<<<<3, 3>>, <<2, 5>>>>, <<<<1, 2>>, <<3, 5>>>>, <<<<25, 25>>, <<0, 25>>>>,
   <<<<2, 4>>, <<6, 8>>>>, <<<<13, 0>>, <<0, 1>>>>, <<<<0, 0>>, <<0, 0>>>>,
   <<<<6, 24, 1>>, <<13, 16, 10>>, <<20, 17, 15>>>>,
   <<<<0, 1, 0, 0>>, <<1, 0, 0, 0>>, <<0, 0, 1, 2>>, <<0, 0, 0, 1>>>>}

HillInit ==
  /\ run \in {[op |-> "hill", stage |-> "Input", text |-> t, key |-> m,
               encrypted |-> Ok(<<>>), decrypted |-> Ok(<<>>),
               inverse |-> <<>>, inverseTwice |-> <<>>] :
                t \in HillTexts, m \in HillMatrices}
  /\ prev = NoPrev

\* hill.encrypt(text, key) returns.
HillEncryptCall ==
  /\ run.op = "hill" /\ run.stage = "Input"
  /\ run' = [run EXCEPT !.stage = "Encrypted",
                        !.encrypted = Ok(HillEncrypt(run.text, run.key))]
  /\ UNCHANGED prev

\* hill.decrypt(encrypted, key) returns.
HillDecryptCall ==
  /\ run.op = "hill" /\ run.stage = "Encrypted"
  /\ run' = [run EXCEPT !.stage = "Decrypted",
                        !.decrypted = Ok(HillDecrypt(run.encrypted.value, run.key))]
  /\ UNCHANGED prev

\* invertMatrix(key) returns, as decrypt calls it.
HillInvertCall ==
  /\ run.op = "hill" /\ run.stage = "Input"
  /\ run' = [run EXCEPT !.stage = "Inverted", !.inverse = invertMatrix(run.key)]
  /\ UNCHANGED prev

\* invertMatrix returns for the matrix it returned before.
HillInvertAgainCall ==
  /\ run.op = "hill" /\ run.stage = "Inverted"
  /\ run' = [run EXCEPT !.stage = "InvertedTwice",
                        !.inverseTwice = invertMatrix(run.inverse)]
  /\ UNCHANGED prev

HillNext ==
  \/ HillEncryptCall
  \/ HillDecryptCall
  \/ HillInvertCall
  \/ HillInvertAgainCall

HillSpec == HillInit /\ [][HillNext]_vars

\* The determinant by expansion along the first row, down to size 1.
RECURSIVE Det(_)
Det(m) ==
  IF Len(m) = 1 THEN m[1][1]
  ELSE SumTo([j \in 1..Len(m) |->
               (IF j % 2 = 1 THEN 1 ELSE 0 - 1) * m[1][j] * Det(getMinor(m, 0, j - 1))],
             Len(m))

\* The determinant has an inverse modulo 26.
InvertibleMod26(m) == \E x \in 1..25 : (Det(m) * x) % 26 = 1

\* C13: for a 2x2 key that is invertible modulo 26 and every text of codes
\* 0..17575, the empty one included, decrypt of encrypt under the key returns
\* the text.
C13_HillRoundTrip ==
  (run.op = "hill" /\ run.stage = "Decrypted" /\ Len(run.key) = 2
     /\ InvertibleMod26(run.key))
    => run.decrypted = Ok(run.text)

\* C15: for a matrix of entries 0..25 that is invertible modulo 26,
\* invertMatrix of invertMatrix of the matrix is the matrix.
C15_InverseInvolution ==
  (run.op = "hill" /\ run.stage = "InvertedTwice" /\ InvertibleMod26(run.key))
    => run.inverseTwice = run.key

\* C16: decrypt with a key that is not invertible modulo 26 fails; it returns
\* no text.
C16_NotInvertibleFails ==
  (run.op = "hill" /\ run.stage = "Decrypted" /\ ~InvertibleMod26(run.key))
    => ~run.decrypted.ok

\* The letters encrypt appends to the 3-letter encoding of the text of a call.
HillPadding(r) == (Len(r.key) - ((3 * Len(r.text)) % Len(r.key))) % Len(r.key)

\* C17: the two letters that start the ciphertext of encrypt spell, base 26,
\* the number of letters appended to bring the 3-letter encoding to a multiple
\* of the key size, the rest has the encoding's length plus that number, and
\* decrypt returns a text with as many characters as the plaintext.
C17_HillPaddingRoundTrip ==
  (run.op = "hill" /\ run.stage \in {"Encrypted", "Decrypted"}) =>
    LET e == run.encrypted.value
    IN  /\ Len(e) = 2 + 3 * Len(run.text) + HillPadding(run)
        /\ (e[1] - 65) * 26 + (e[2] - 65) = HillPadding(run)
        /\ run.stage = "Decrypted" => Len(run.decrypted.value) = Len(run.text)

\* A text of two characters has been encrypted under the 4x4 key with two
\* letters appended, and decrypted.
C17_Witness ==
  /\ run.op = "hill" /\ run.stage = "Decrypted"
  /\ Len(run.key) = 4 /\ Len(run.text) = 2 /\ HillPadding(run) = 2
  /\ Len(run.decrypted.value) = 2

----------------------------------------------------------------------------
(* HillCipher.generateKey: hill.ts, lines 4-29.  `run` is the one call in  *)
(* progress: the size asked for, the matrix sampled last, the number of    *)
(* samples taken and the matrix returned.                                  *)

maxAttempts == 100

\* The matrix of lines 22-25.
HillFallback == <<<<3, 3>>, <<2, 5>>>>

\* Matrices the sampling of lines 10-16 can give for a size, entries 0..25:
\* ones that are invertible modulo 26 and ones that are not.
HillSamples(size) ==
  CASE size = 1 -> {<<<<0>>>>, <<<<1>>>>}
    [] size = 2 -> {<<<<1, 2>>, <<3, 5>>>>, <<<<25, 25>>, <<0, 25>>>>,
                    <<<<2, 4>>, <<6, 8>>>>, <<<<13, 0>>, <<0, 1>>>>,
                    <<<<0, 0>>, <<0, 0>>>>}
    [] size = 3 -> {<<<<6, 24, 1>>, <<13, 16, 10>>, <<20, 17, 15>>>>,
                    <<<<1, 2, 3>>, <<2, 4, 6>>, <<0, 0, 1>>>>,
                    <<<<2, 0, 0>>, <<0, 1, 0>>, <<0, 0, 1>>>>}

\* The condition of the do-while (line 18).
generateKeyLoops(matrix, attempts) ==
  ~isInvertible(matrix) /\ attempts < maxAttempts

\* Lines 20-28: the fallback once the attempts are used up, else the sample.
generateKeyResult(matrix, attempts) ==
  IF attempts >= maxAttempts THEN HillFallback ELSE matrix

HillKeyInit ==
  /\ run \in {[op |-> "hill.generateKey", stage |-> "Loop", size |-> n,
               attempts |-> 0, matrix |-> <<>>, result |-> <<>>] : n \in 1..3}
  /\ prev = NoPrev

\* One pass of the do-while body: a sample, attempts++.
HillSample ==
  /\ run.op = "hill.generateKey" /\ run.stage = "Loop"
  /\ run.attempts = 0 \/ generateKeyLoops(run.matrix, run.attempts)
  /\ \E m \in HillSamples(run.size) :
       run' = [run EXCEPT !.matrix = m, !.attempts = run.attempts + 1]
  /\ UNCHANGED prev

\* The loop has ended: generateKey returns.
HillGenerateKeyReturn ==
  /\ run.op = "hill.generateKey" /\ run.stage = "Loop"
  /\ run.attempts > 0 /\ ~generateKeyLoops(run.matrix, run.attempts)
  /\ run' = [run EXCEPT !.stage = "Returned",
                        !.result = generateKeyResult(run.matrix, run.attempts)]
  /\ UNCHANGED prev

HillKeyNext ==
  \/ HillSample
  \/ HillGenerateKeyReturn

HillKeySpec == HillKeyInit /\ [][HillKeyNext]_vars

\* C14: the matrix generateKey returns, a sample or the fallback, is square,
\* has entries in 0..25 and a determinant with an inverse modulo 26.
C14_GeneratedKeyInvertible ==
  (run.op = "hill.generateKey" /\ run.stage = "Returned") =>
    /\ Len(run.result) > 0
    /\ \A r \in 1..Len(run.result) :
         /\ Len(run.result[r]) = Len(run.result)
         /\ \A c \in 1..Len(run.result) : run.result[r][c] \in 0..25
    /\ InvertibleMod26(run.result)

\* generateKey has returned a 2x2 sample that is not the fallback, after a
\* sample that was not invertible.
C14_Witness ==
  /\ run.op = "hill.generateKey" /\ run.stage = "Returned"
  /\ run.size = 2 /\ run.attempts > 1 /\ run.attempts < maxAttempts
  /\ run.result = run.matrix /\ run.result # HillFallback

----------------------------------------------------------------------------
(* The Caesar cipher called by itself: caesar.ts, lines 6-39.  `run` is    *)
(* the one call in progress: the text and the shift it was given and what  *)
(* encrypt and decrypt have returned so far.                               *)

\* Letters at both ends of the alphabet in both cases, the characters next to
\* the letters in the code table, a space and a letter that is not ASCII.
CaesarChars ==
  {Ord("A"), Ord("Z"), Ord("a"), Ord("z"), Ord(" "), Ord("@"), Ord("["), 96,
   Ord("{"), 233}

CaesarTexts == StringsUpTo(CaesarChars, MaxTrialLen)

\* Shifts: 0, the ones generateKey can return, negative ones, 26 and more.
CaesarTrialShifts == {0 - 27, 0 - 26, 0 - 1, 0, 1, 13, 25, 26, 27, 53}

CaesarInit ==
  /\ run \in {[op |-> "caesar", stage |-> "Input", text |-> t, shift |-> n,
               encrypted |-> <<>>, decrypted |-> <<>>] :
                t \in CaesarTexts, n \in CaesarTrialShifts}
  /\ prev = NoPrev

\* caesar.encrypt(text, shift) returns.
CaesarEncryptCall ==
  /\ run.op = "caesar" /\ run.stage = "Input"
  /\ run' = [run EXCEPT !.stage = "Encrypted",
                        !.encrypted = CaesarEncrypt(run.text, run.shift)]
  /\ UNCHANGED prev

\* caesar.decrypt(encrypted, shift) returns.
CaesarDecryptCall ==
  /\ run.op = "caesar" /\ run.stage = "Encrypted"
  /\ run' = [run EXCEPT !.stage = "Decrypted",
                        !.decrypted = CaesarDecrypt(run.encrypted, run.shift)]
  /\ UNCHANGED prev

\* caesar.decrypt(text, shift) returns, for a text that was not encrypted.
CaesarDecryptTextCall ==
  /\ run.op = "caesar" /\ run.stage = "Input"
  /\ run' = [run EXCEPT !.stage = "DecryptedText",
                        !.decrypted = CaesarDecrypt(run.text, run.shift)]
  /\ UNCHANGED prev

CaesarNext ==
  \/ CaesarEncryptCall
  \/ CaesarDecryptCall
  \/ CaesarDecryptTextCall

CaesarSpec == CaesarInit /\ [][CaesarNext]_vars

\* `out` has the length of `in`, the characters of `in` outside A-Z and a-z at
\* their positions, an upper-case letter for each upper-case letter and a
\* lower-case letter for each lower-case letter.
KeepsShape(in, out) ==
  /\ Len(out) = Len(in)
  /\ \A i \in 1..Len(in) :
       /\ in[i] \in 65..90 => out[i] \in 65..90
       /\ in[i] \in 97..122 => out[i] \in 97..122
       /\ in[i] \notin (65..90) \cup (97..122) => out[i] = in[i]

\* C18: what encrypt returns for a text, and what decrypt returns for a text
\* or for a ciphertext, keeps the length, every character that is no ASCII
\* letter, and the case of every letter, for every shift.
C18_CaesarKeepsShape ==
  run.op = "caesar" =>
    /\ run.stage \in {"Encrypted", "Decrypted"} => KeepsShape(run.text, run.encrypted)
    /\ run.stage = "Decrypted" => KeepsShape(run.encrypted, run.decrypted)
    /\ run.stage = "DecryptedText" => KeepsShape(run.text, run.decrypted)

\* A text with a lower-case letter and a character that is no letter has been
\* encrypted with a shift over 26 that changed it.
C18_Witness ==
  /\ run.op = "caesar" /\ run.stage = "Encrypted"
  /\ run.shift > 26 /\ run.encrypted # run.text
  /\ \E i \in 1..Len(run.text) : run.text[i] \in 97..122
  /\ \E i \in 1..Len(run.text) : run.text[i] \notin (65..90) \cup (97..122)

\* C19: decrypt rotates forward by 26 - (shift mod 26), and for every integer
\* shift decrypt of encrypt returns the text.
C19_CaesarRoundTrip ==
  (run.op = "caesar" /\ run.stage = "Decrypted") =>
    /\ run.decrypted = run.text
    /\ run.decrypted = CaesarEncrypt(run.encrypted, 26 - (run.shift % 26))

\* A text with letters has been encrypted with a negative shift that changed
\* it, and decrypted.
C19_Witness ==
  /\ run.op = "caesar" /\ run.stage = "Decrypted"
  /\ run.shift < 0 /\ run.encrypted # run.text
  /\ Len(run.text) = 2 /\ run.text[1] \in 65..90 /\ run.text[2] \in 97..122
  /\ run.decrypted = run.text

----------------------------------------------------------------------------
(* The RSA adapter called by itself: rsa.ts, lines 37-98.  `run` is the    *)
(* one call in progress: the plaintext, the key pair, and what encrypt and *)
(* decrypt have returned so far.                                           *)

\* The longest plaintext, in chunks of the key in use.
MaxChunks == 2

\* The first n characters of a pattern written over and over.
RsaTrialText(pattern, n) ==
  [i \in 1..n |-> pattern[((i - 1) % Len(pattern)) + 1]]

\* Plaintexts with the separator and the length mark in them, and without.
RsaTrialPatterns == {S(<<"|", "R", "S", "A", "|", ":">>), S(<<"a", "Z", "9">>)}

\* Lengths 0 and 1, and one less than, exactly, and one more than every whole
\* number of chunks.
RsaTrialLengths(publicKeyPem) ==
  {0, 1} \cup {k * maxChunkSize(publicKeyPem) + d :
                 k \in 1..MaxChunks, d \in {0 - 1, 0, 1}}

RsaTrials(mode, id) ==
  LET publicKeyPem == PublicPem(RsaGetKeySize(mode), id)
  IN  {[op |-> "rsa", stage |-> "Input",
        plaintext |-> RsaTrialText(pattern, n),
        publicKey |-> publicKeyPem,
        privateKey |-> PrivatePem(RsaGetKeySize(mode), id),
        encrypted |-> Ok(<<>>), decrypted |-> Ok(<<>>)] :
         pattern \in RsaTrialPatterns, n \in RsaTrialLengths(publicKeyPem)}

RsaInit ==
  /\ run \in UNION {RsaTrials(mode, id) : mode \in {"high", "balanced", "lightweight"},
                                          id \in {Ord("a"), Ord("b")}}
  /\ prev = NoPrev

\* rsa.encrypt(plaintext, publicKey) returns or throws.
RsaEncryptCall ==
  /\ run.op = "rsa" /\ run.stage = "Input"
  /\ run' = [run EXCEPT !.stage = "Encrypted",
                        !.encrypted = RsaEncrypt(run.plaintext, run.publicKey)]
  /\ UNCHANGED prev

\* rsa.decrypt(encrypted, privateKey) returns or throws.
RsaDecryptCall ==
  /\ run.op = "rsa" /\ run.stage = "Encrypted" /\ run.encrypted.ok
  /\ run' = [run EXCEPT !.stage = "Decrypted",
                        !.decrypted = RsaDecrypt(run.encrypted.value, run.privateKey)]
  /\ UNCHANGED prev

RsaNext ==
  \/ RsaEncryptCall
  \/ RsaDecryptCall

RsaSpec == RsaInit /\ [][RsaNext]_vars

\* The least number of chunks of at most `size` characters that hold n characters.
ChunksFor(n, size) == (n + size - 1) \div size

\* The ciphertext is one encoded chunk per chunk of the plaintext, and the
\* separator occurs in none of them.
RsaFramed(r) ==
  LET chunks == Split(r.encrypted.value, RsaSeparator)
  IN  /\ Len(chunks) = ChunksFor(Len(r.plaintext), maxChunkSize(r.publicKey))
      /\ \A i \in 1..Len(chunks) : IndexOf(RsaChunkBody(chunks[i]), RsaSeparator) = 0

\* C20: for every plaintext length, 0 included, encrypt returns a framed
\* ciphertext and decrypt of it with the private key of the pair returns the
\* plaintext.
C20_RsaFramingRoundTrip ==
  (run.op = "rsa" /\ run.stage = "Decrypted") =>
    /\ RsaFramed(run)
    /\ run.decrypted = Ok(run.plaintext)

----------------------------------------------------------------------------
(* Properties of the dispatcher's and the pipeline's errors                *)

\* The results of the adapter call that a call of encrypt or decrypt makes,
\* when the key checks in front of it let the call reach the adapter.
AdapterResults(c) ==
  CASE c.algorithm = "aes" /\ c.fn = "encrypt" -> {AesEncrypt(c.input, c.key, c.mode)}
    [] c.algorithm = "aes" /\ c.fn = "decrypt" -> AesDecrypt(c.input, c.key, c.mode)
    [] c.algorithm = "blowfish" /\ c.fn = "encrypt" -> {BlowfishEncrypt(c.input, c.key)}
    [] c.algorithm = "blowfish" /\ c.fn = "decrypt" -> BlowfishDecrypt(c.input, c.key)
    [] c.algorithm = "rsa" /\ c.fn \in {"encrypt", "decrypt"} ->
         IF c.key # Undefined /\ ~IsBlank(c.key) /\ JsonValid(c.key)
              /\ JsonParse(c.key).type = "object" /\ ~RsaIncomplete(JsonParse(c.key))
         THEN IF c.fn = "encrypt"
              THEN {RsaEncrypt(c.input, JsonParse(c.key).publicKey)}
              ELSE {RsaDecrypt(c.input, JsonParse(c.key).privateKey)}
         ELSE {}
    [] c.algorithm = "hill" /\ c.fn \in {"encrypt", "decrypt"} ->
         IF c.key # Undefined /\ JsonValid(c.key)
         THEN IF c.fn = "encrypt"
              THEN {HillEncryptValue(c.input, JsonParse(c.key))}
              ELSE {HillDecryptValue(c.input, JsonParse(c.key))}
         ELSE {}
    [] OTHER -> {}

\* The algorithm an error message names.
ErrorAlgorithm(msg) ==
  CASE msg \in {"AES encryption failed", "AES decryption failed"} -> "aes"
    [] msg \in {"RSA encryption failed", "RSA decryption failed"} -> "rsa"
    [] msg \in {"Blowfish encryption failed", "Blowfish decryption failed"} -> "blowfish"
    [] msg \in {"Hill encryption failed", "Hill decryption failed"} -> "hill"
    [] OTHER -> "none"

\* C21: every call of encrypt or decrypt whose adapter call fails gives the
\* caller an error that names the algorithm and carries the cause the adapter
\* failed with; it gives no text and no error of another kind.
C21_AdapterFailureTagged ==
  \A k \in 1..Len(run.calls) :
    LET c == run.calls[k]
    IN  (c.fn \in {"encrypt", "decrypt"} /\ AdapterResults(c) # {}
           /\ \A a \in AdapterResults(c) : ~a.ok) =>
          /\ ~c.out.ok
          /\ ErrorAlgorithm(c.out.msg) = c.algorithm
          /\ \E a \in AdapterResults(c) : c.out.cause = a.cause

\* The layer an invocation is at, counted in processing order from 1.
LayerPosition(r) ==
  IF r.op = "encrypt" THEN r.i + 1 ELSE Len(r.algorithms) - r.i

\* C22: when a call of generateKey, encrypt or decrypt fails in
\* multiLayerEncrypt or in multiLayerDecrypt, it is the last call of the
\* invocation, the invocation has failed with the layers before it only, and
\* its error carries the layer's position, the layer's algorithm, the mode and
\* the message of the failed call.
C22_LayerFailure ==
  (run.op \in {"encrypt", "decrypt"} /\ Len(run.calls) > 0) =>
    LET n == Len(run.calls)
        last == run.calls[n]
    IN  /\ \A k \in 1..(n - 1) : run.calls[k].out.ok
        /\ ~last.out.ok =>
             /\ run.state = "Failed"
             /\ run.error.layer = LayerPosition(run)
             /\ run.error.algorithm = toUpperCase(last.algorithm)
             /\ run.error.mode = toUpperCase(run.mode)
             /\ run.error.cause = last.out.msg
             /\ Len(run.layers) = LayerPosition(run) - 1

----------------------------------------------------------------------------
(* Invocations of the pipeline that are in progress at once on the one     *)
(* EncryptionManager: encryption-manager.ts, lines 237-357.  Both          *)
(* functions are async and give way at every await of generateKey, encrypt *)
(* and decrypt.  `run.invs` holds the locals of every invocation,          *)
(* `run.given` what each was called with.                                  *)

\* The number of invocations in progress at once.
MaxInvocations == 2

\* The text multiLayerEncrypt returns for "A", [caesar, aes], lightweight and
\* the keys SHIFT-7 and aa.
ConcCiphertext ==
  AesEncrypt(CaesarEncrypt(S(<<"A">>), 7), S(<<"a", "a">>), "lightweight").value

ConcKeys == Store(OneKey("aes", S(<<"a", "a">>)), "caesar", Shift7)

\* The calls made at once: encryptions that generate their keys, that are
\* given one, and that fail at their second layer; decryptions that succeed,
\* that fail at a layer, and that lack a key.
ConcCalls ==
  {BeginEncrypt(S(<<"A">>), <<"caesar", "aes">>, "lightweight", EmptyMap),
   BeginEncrypt(S(<<"z">>), <<"blowfish", "caesar">>, "high", OneKey("caesar", Shift7)),
   BeginEncrypt(S(<<"A">>), <<"caesar", "des", "aes">>, "balanced", EmptyMap),
   BeginDecrypt(ConcCiphertext, <<"caesar", "aes">>, ConcKeys, "lightweight"),
   BeginDecrypt(S(<<"A", "z">>), <<"aes", "caesar">>,
                Store(ConcKeys, "caesar", KeyKEY), "high"),
   BeginDecrypt(S(<<"A", "z">>), <<"caesar", "aes">>, OneKey("aes", S(<<"a", "a">>)),
                "high")}

\* The locals of an invocation whose keys, layers and samples are those of
\* the first invocation.
InvocationLocalsShared(invs, n) ==
  [invs[n] EXCEPT !.keys = invs[1].keys, !.layers = invs[1].layers,
                  !.metrics = invs[1].metrics]

\* The locals an invocation works on: encrypted, keys, metrics and layers are
\* declared in the body of multiLayerEncrypt (lines 243-246), decrypted,
\* metrics and layers in the body of multiLayerDecrypt (lines 302-304).
InvocationLocals(invs, n) == invs[n]

ConcInit ==
  /\ run \in {[op |-> "concurrent", invs |-> c, given |-> c, last |-> 0,
               interleaved |-> FALSE] : c \in [1..MaxInvocations -> ConcCalls]}
  /\ prev = NoPrev

\* What a step of invocation n leaves behind: the invocation's locals, and
\* whether the step came between two steps of another invocation.
ConcStep(n, r) ==
  [run EXCEPT !.invs[n] = r, !.last = n,
              !.interleaved = run.interleaved
                \/ (run.last \notin {0, n} /\ run.invs[run.last].state = "Running"
                      /\ Len(run.invs[run.last].calls) > 0)]

\* One layer of the encryption loop of an invocation.
ConcEncryptLayer ==
  /\ run.op = "concurrent"
  /\ \E n \in 1..MaxInvocations :
       LET r == InvocationLocals(run.invs, n)
       IN  /\ r.op = "encrypt" /\ r.state = "Running"
           /\ r.i < Len(r.algorithms)
           /\ \E k \in LayerKeys(r) :
                \E out \in (IF k.ok
                            THEN encrypt(r.text, EncryptLayerAlgorithm(r), k.value, r.mode)
                            ELSE {k}) :
                  run' = ConcStep(n, EncryptIteration(r, k, out))
  /\ UNCHANGED prev

\* An invocation of multiLayerEncrypt returns.
ConcEncryptReturn ==
  /\ run.op = "concurrent"
  /\ \E n \in 1..MaxInvocations :
       LET r == InvocationLocals(run.invs, n)
       IN  /\ r.op = "encrypt" /\ r.state = "Running"
           /\ r.i >= Len(r.algorithms)
           /\ run' = ConcStep(n, [r EXCEPT !.state = "Complete"])
  /\ UNCHANGED prev

\* One layer of the decryption loop of an invocation.
ConcDecryptLayer ==
  /\ run.op = "concurrent"
  /\ \E n \in 1..MaxInvocations :
       LET r == InvocationLocals(run.invs, n)
       IN  /\ r.op = "decrypt" /\ r.state = "Running"
           /\ r.i >= 0
           /\ \E out \in decrypt(r.text, DecryptLayerAlgorithm(r),
                                 Lookup(r.argKeys, DecryptLayerAlgorithm(r)), r.mode) :
                run' = ConcStep(n, DecryptIteration(r, out))
  /\ UNCHANGED prev

\* An invocation of multiLayerDecrypt returns.
ConcDecryptReturn ==
  /\ run.op = "concurrent"
  /\ \E n \in 1..MaxInvocations :
       LET r == InvocationLocals(run.invs, n)
       IN  /\ r.op = "decrypt" /\ r.state = "Running"
           /\ r.i < 0
           /\ run' = ConcStep(n, [r EXCEPT !.state = "Complete"])
  /\ UNCHANGED prev

ConcNext ==
  \/ ConcEncryptLayer
  \/ ConcEncryptReturn
  \/ ConcDecryptLayer
  \/ ConcDecryptReturn

ConcSpec == ConcInit /\ [][ConcNext]_vars

\* The invocation r run to its end with no other invocation in progress, with
\* the keys of the map `generated` for the keys it generates.
RECURSIVE RunAlone(_, _)
RunAlone(r, generated) ==
  IF r.state # "Running" THEN r
  ELSE IF r.op = "encrypt"
  THEN IF r.i >= Len(r.algorithms) THEN [r EXCEPT !.state = "Complete"]
       ELSE LET algorithm == r.algorithms[r.i + 1]
                k == IF ~Falsy(Lookup(r.argKeys, algorithm))
                     THEN Ok(Lookup(r.argKeys, algorithm))
                     ELSE IF algorithm \in DOMAIN generated
                          THEN Ok(generated[algorithm])
                          ELSE CHOOSE g \in generateKey(algorithm, r.mode) : TRUE
                out == IF k.ok
                       THEN CHOOSE o \in encrypt(r.text, algorithm, k.value, r.mode) : TRUE
                       ELSE k
            IN  RunAlone(EncryptIteration(r, k, out), generated)
  ELSE IF r.i < 0 THEN [r EXCEPT !.state = "Complete"]
       ELSE LET algorithm == r.algorithms[r.i + 1]
                out == CHOOSE o \in decrypt(r.text, algorithm,
                                            Lookup(r.argKeys, algorithm), r.mode) : TRUE
            IN  RunAlone(DecryptIteration(r, out), generated)

\* C23: under every interleaving of the layer steps, an invocation that has
\* ended has the text, the key map, the layer list, the samples and the error
\* it has when it is run alone with what it was given and the keys it
\* generated; the other invocations' steps have left no trace in them.
C23_InvocationsIndependent ==
  run.op = "concurrent" =>
    \A n \in 1..MaxInvocations :
      run.invs[n].state \in {"Complete", "Failed"} =>
        run.invs[n] = RunAlone(run.given[n], run.invs[n].keys)

\* Two invocations have ended after their steps were interleaved: an
\* encryption that generated keys and returned, and an invocation that wrote
\* layers of its own.
C23_Witness ==
  /\ run.op = "concurrent" /\ run.interleaved
  /\ \A n \in 1..MaxInvocations : run.invs[n].state \in {"Complete", "Failed"}
  /\ run.invs[1].op = "encrypt" /\ run.invs[1].state = "Complete"
  /\ Len(run.invs[1].layers) = 2 /\ run.invs[1].argKeys = EmptyMap
  /\ Len(run.invs[2].layers) > 0
  /\ run.given[2] # run.given[1]

----------------------------------------------------------------------------
(* Properties of the Hill determinant and inverse                          *)

\* The product of two square matrices of one size, modulo 26.
MatMulMod26(a, b) ==
  [i \in 1..Len(a) |->
    [j \in 1..Len(a) |->
      SumTo([k \in 1..Len(a) |-> a[i][k] * b[k][j]], Len(a)) % 26]]

IdentityMatrix(size) ==
  [i \in 1..size |-> [j \in 1..size |-> IF i = j THEN 1 ELSE 0]]

\* C25: determinant returns the determinant of the key and of every minor of
\* the key that invertMatrix takes a cofactor of, the 1x1 minors of a 2x2 key
\* included, and for a key that is invertible modulo 26 the key times
\* invertMatrix of the key is the identity matrix modulo 26.
C25_DeterminantAndInverse ==
  (run.op = "hill" /\ run.stage = "Inverted") =>
    /\ determinant(run.key) = Det(run.key)
    /\ \A r \in 0..(Len(run.key) - 1), c \in 0..(Len(run.key) - 1) :
         determinant(getMinor(run.key, r, c)) = Det(getMinor(run.key, r, c))
    /\ InvertibleMod26(run.key) =>
         MatMulMod26(run.key, run.inverse) = IdentityMatrix(Len(run.key))

----------------------------------------------------------------------------
(* Properties of the retries of HillCipher.generateKey                     *)

\* C26: generateKey takes at most 100 samples; when the sample it ended on is
\* invertible modulo 26 it returns that sample, so that it returns the
\* fallback only after 100 samples of which none is invertible; and the
\* matrix it returns has the size asked for.
C26_FallbackOnlyWhenExhausted ==
  (run.op = "hill.generateKey" /\ run.stage = "Returned") =>
    /\ run.attempts <= maxAttempts
    /\ InvertibleMod26(run.matrix) => run.result = run.matrix
    /\ run.result # run.matrix =>
         (run.result = HillFallback /\ run.attempts = maxAttempts)
    /\ Len(run.result) = run.size

----------------------------------------------------------------------------
(* Properties of chains that repeat an algorithm, and of the arguments     *)

\* An algorithm stands at more than one position of the chain and the caller
\* gave no key for it.
RepeatsWithoutKey(algorithms, existingKeys) ==
  \E j \in 1..Len(algorithms), k \in 1..Len(algorithms) :
    /\ j < k /\ algorithms[j] = algorithms[k]
    /\ Falsy(Lookup(existingKeys, algorithms[j]))

\* C27: in a run of multiLayerEncrypt over a chain that repeats an algorithm
\* for which no key is supplied, all layers of the algorithm have one key,
\* the returned keys map holds that key under the algorithm, and
\* multiLayerDecrypt with the chain and the returned keys returns the
\* plaintext.
C27_RepeatedAlgorithmOneKey ==
  /\ (run.op = "encrypt" /\ RepeatsWithoutKey(run.algorithms, run.argKeys)) =>
       \A j \in 1..Len(run.layers), k \in 1..Len(run.layers) :
         run.layers[j].algorithm = run.layers[k].algorithm =>
           /\ run.layers[j].key = run.layers[k].key
           /\ run.state = "Complete" =>
                Lookup(run.keys, run.layers[j].algorithm) = run.layers[j].key
  /\ (run.op = "decrypt" /\ run.roundTrip /\ prev.valid
        /\ RepeatsWithoutKey(prev.algorithms, prev.existingKeys)
        /\ run.state \in {"Complete", "Failed"}) =>
       (run.state = "Complete" /\ run.text = prev.plaintext)

\* C28: no step of multiLayerEncrypt or multiLayerDecrypt, be it a layer that
\* succeeds, a layer that fails or the return, changes the caller's algorithm
\* list or the caller's key map; a generated key goes to the keys map of the
\* result only.
C28_ArgumentsUnchanged ==
  [][(run.op \in {"encrypt", "decrypt"} /\ run.state = "Running") =>
       /\ run'.algorithms = run.algorithms
       /\ run'.argKeys = run.argKeys
       /\ run'.input = run.input]_vars

\* An encryption that was given a key for one algorithm of its chain has
\* generated a key for another, stored it in its result map, and failed.
C28_Witness ==
  /\ run.op = "encrypt" /\ run.state = "Failed"
  /\ run.algorithms = <<"caesar", "des">>
  /\ run.argKeys = OneKey("des", KeyKEY)
  /\ DOMAIN run.keys = {"caesar"}

----------------------------------------------------------------------------
(* The encryption panel: src/unnamed/part_000, lines 19-183 and the        *)
(* onClick and onChange handlers of lines 215-488.  `run` holds the        *)
(* component's state (lines 20-30), the Generate Keys task and the Encrypt *)
(* or Decrypt task in progress, each with the values its handler captured  *)
(* when it was clicked, and what the properties need of the past.          *)

\* The most clicks and edits of the user in one session.
MaxClicks == 5

\* What is typed into the input area: a text and a blank.
PanelTexts == {S(<<"A">>), S(<<" ">>)}

\* The keys generateKey returns in the panel's runs: each of the keys of the
\* dispatcher's model for aes and caesar, one of them for the other algorithms.
PanelKeys(algorithm, mode) ==
  IF algorithm \in {"aes", "caesar"} THEN generateKey(algorithm, mode)
  ELSE {CHOOSE k \in generateKey(algorithm, mode) : TRUE}

NoGeneration ==
  [active |-> FALSE, mode |-> "balanced", algorithms |-> <<>>, newKeys |-> EmptyMap,
   n |-> 0]

NoCipher == [valid |-> FALSE, plaintext |-> <<>>, encrypted |-> <<>>]

\* The state after the first render: the useState defaults of lines 20-30.
PanelStart ==
  [op |-> "panel", tab |-> "encrypt", securityMode |-> "balanced",
   plaintext |-> <<>>, ciphertext |-> <<>>, keys |-> EmptyMap,
   isProcessing |-> FALSE, isGeneratingKeys |-> FALSE, result |-> <<>>,
   layers |-> <<>>, isSecurityModeLocked |-> FALSE,
   gen |-> NoGeneration, job |-> IdleRun,
   generatedKeys |-> EmptyMap, first |-> NoCipher, clicks |-> 0]

\* selectedAlgorithms (line 39), computed at every render from securityMode.
selectedAlgorithms(r) == getRecommendedAlgorithms(r.securityMode)

PanelInit ==
  /\ run = PanelStart
  /\ prev = NoPrev

\* One more click or edit.
Clicked(r) == [r EXCEPT !.clicks = r.clicks + 1]

\* The Encrypt and Decrypt tabs (lines 215, 229): a click on the other tab.
PanelSetMode ==
  /\ run.op = "panel" /\ run.clicks < MaxClicks
  /\ \E tab \in {"encrypt", "decrypt"} \ {run.tab} :
       run' = Clicked([run EXCEPT !.tab = tab])
  /\ UNCHANGED prev

\* onChange of the input area (lines 378-380).
PanelType ==
  /\ run.op = "panel" /\ run.clicks < MaxClicks
  /\ \E t \in PanelTexts :
       run' = Clicked(IF run.tab = "encrypt" THEN [run EXCEPT !.plaintext = t]
                      ELSE [run EXCEPT !.ciphertext = t])
  /\ UNCHANGED prev

\* onClick of a security-mode button (lines 258-264).
PanelSelectSecurityMode ==
  /\ run.op = "panel" /\ run.clicks < MaxClicks
  /\ \E sm \in Modes :
       run' = Clicked(IF ~run.isSecurityModeLocked
                      THEN [run EXCEPT !.securityMode = sm, !.keys = EmptyMap,
                                       !.layers = <<>>,
                                       !.generatedKeys = EmptyMap, !.first = NoCipher]
                      ELSE run)
  /\ UNCHANGED prev

\* generateKeys up to its first await (lines 41-47); the button is disabled
\* while isGeneratingKeys (line 429).
PanelGenerateKeysClick ==
  /\ run.op = "panel" /\ run.clicks < MaxClicks
  /\ ~run.isGeneratingKeys
  /\ run' = Clicked([run EXCEPT !.isGeneratingKeys = TRUE,
                                !.gen = [active |-> TRUE, mode |-> run.securityMode,
                                         algorithms |-> selectedAlgorithms(run),
                                         newKeys |-> EmptyMap, n |-> 0]])
  /\ UNCHANGED prev

\* One pass of the loop of generateKeys (lines 46-50): a key, then the delay.
\* A generateKey that throws ends the task in the catch and the finally.
PanelGenerateKey ==
  /\ run.op = "panel" /\ run.gen.active
  /\ run.gen.n < Len(run.gen.algorithms)
  /\ \E k \in PanelKeys(run.gen.algorithms[run.gen.n + 1], run.gen.mode) :
       run' = IF k.ok
              THEN [run EXCEPT !.gen.newKeys =
                                 Store(run.gen.newKeys,
                                       run.gen.algorithms[run.gen.n + 1], k.value),
                               !.gen.n = run.gen.n + 1]
              ELSE [run EXCEPT !.gen = NoGeneration, !.isGeneratingKeys = FALSE]
  /\ UNCHANGED prev

\* The end of generateKeys (lines 53-59): setKeys, the lock, the finally.
PanelGenerateKeysEnd ==
  /\ run.op = "panel" /\ run.gen.active
  /\ run.gen.n >= Len(run.gen.algorithms)
  /\ run' = [run EXCEPT !.keys = run.gen.newKeys, !.isSecurityModeLocked = TRUE,
                        !.isGeneratingKeys = FALSE, !.gen = NoGeneration,
                        !.generatedKeys = run.gen.newKeys, !.first = NoCipher]
  /\ UNCHANGED prev

\* handleEncrypt up to its await (lines 63-79); the button is disabled while
\* isProcessing (line 488).  multiLayerEncrypt is called with three arguments.
PanelEncryptClick ==
  /\ run.op = "panel" /\ run.clicks < MaxClicks
  /\ run.tab = "encrypt" /\ ~run.isProcessing
  /\ run' = Clicked(IF IsBlank(run.plaintext) \/ DOMAIN run.keys = {}
                    THEN run
                    ELSE [run EXCEPT !.isProcessing = TRUE,
                                     !.job = BeginEncrypt(run.plaintext,
                                               selectedAlgorithms(run),
                                               run.securityMode, EmptyMap)])
  /\ UNCHANGED prev

\* One layer of the multiLayerEncrypt that handleEncrypt awaits.
PanelEncryptLayer ==
  /\ run.op = "panel"
  /\ run.job.op = "encrypt" /\ run.job.state = "Running"
  /\ run.job.i < Len(run.job.algorithms)
  /\ \E k \in LayerKeys(run.job) \cap PanelKeys(EncryptLayerAlgorithm(run.job), run.job.mode) :
       \E out \in (IF k.ok
                   THEN encrypt(run.job.text, EncryptLayerAlgorithm(run.job),
                                k.value, run.job.mode)
                   ELSE {k}) :
         run' = [run EXCEPT !.job = EncryptIteration(run.job, k, out)]
  /\ UNCHANGED prev

\* The rest of handleEncrypt (lines 82-122): the setters after the result, or
\* the catch, and the finally.
PanelEncryptEnd ==
  /\ run.op = "panel" /\ run.job.op = "encrypt"
  /\ \/ /\ run.job.state = "Running" /\ run.job.i >= Len(run.job.algorithms)
        /\ run' = [run EXCEPT !.ciphertext = run.job.text, !.result = run.job.text,
                              !.layers = run.job.layers, !.keys = run.job.keys,
                              !.isProcessing = FALSE, !.job = IdleRun,
                              !.first = IF run.first.valid THEN run.first
                                        ELSE [valid |-> TRUE,
                                              plaintext |-> run.job.input,
                                              encrypted |-> run.job.text]]
     \/ /\ run.job.state = "Failed"
        /\ run' = [run EXCEPT !.isProcessing = FALSE, !.job = IdleRun]
  /\ UNCHANGED prev

\* handleDecrypt up to its await (lines 124-140).
PanelDecryptClick ==
  /\ run.op = "panel" /\ run.clicks < MaxClicks
  /\ run.tab = "decrypt" /\ ~run.isProcessing
  /\ run' = Clicked(IF IsBlank(run.ciphertext) \/ DOMAIN run.keys = {}
                    THEN run
                    ELSE [run EXCEPT !.isProcessing = TRUE,
                                     !.job = BeginDecrypt(run.ciphertext,
                                               selectedAlgorithms(run), run.keys,
                                               run.securityMode)])
  /\ UNCHANGED prev

\* One layer of the multiLayerDecrypt that handleDecrypt awaits.
PanelDecryptLayer ==
  /\ run.op = "panel"
  /\ run.job.op = "decrypt" /\ run.job.state = "Running"
  /\ run.job.i >= 0
  /\ \E out \in decrypt(run.job.text, DecryptLayerAlgorithm(run.job),
                        Lookup(run.job.argKeys, DecryptLayerAlgorithm(run.job)),
                        run.job.mode) :
       run' = [run EXCEPT !.job = DecryptIteration(run.job, out)]
  /\ UNCHANGED prev

\* The rest of handleDecrypt (lines 144-182).
PanelDecryptEnd ==
  /\ run.op = "panel" /\ run.job.op = "decrypt"
  /\ \/ /\ run.job.state = "Running" /\ run.job.i < 0
        /\ run' = [run EXCEPT !.plaintext = run.job.text, !.result = run.job.text,
                              !.layers = run.job.layers,
                              !.isProcessing = FALSE, !.job = IdleRun]
     \/ /\ run.job.state = "Failed"
        /\ run' = [run EXCEPT !.isProcessing = FALSE, !.job = IdleRun]
  /\ UNCHANGED prev

\* onClick of Clear (lines 465-472); the button is there while keys has an
\* entry (line 446).
PanelClear ==
  /\ run.op = "panel" /\ run.clicks < MaxClicks
  /\ DOMAIN run.keys # {}
  /\ run' = Clicked([run EXCEPT !.keys = EmptyMap, !.layers = <<>>,
                                !.isSecurityModeLocked = FALSE, !.result = <<>>,
                                !.plaintext = <<>>, !.ciphertext = <<>>,
                                !.generatedKeys = EmptyMap, !.first = NoCipher])
  /\ UNCHANGED prev

PanelNext ==
  \/ PanelSetMode
  \/ PanelType
  \/ PanelSelectSecurityMode
  \/ PanelGenerateKeysClick
  \/ PanelGenerateKey
  \/ PanelGenerateKeysEnd
  \/ PanelEncryptClick
  \/ PanelEncryptLayer
  \/ PanelEncryptEnd
  \/ PanelDecryptClick
  \/ PanelDecryptLayer
  \/ PanelDecryptEnd
  \/ PanelClear

PanelSpec == PanelInit /\ [][PanelNext]_vars

----------------------------------------------------------------------------
(* Properties of the encryption panel                                      *)

\* No algorithm stands at two positions of the chain.
NoRepeat(chain) ==
  \A j \in 1..Len(chain), k \in 1..Len(chain) : chain[j] = chain[k] => j = k

PanelKeysFitMode(r) ==
  /\ DOMAIN r.keys = Range(selectedAlgorithms(r))
  /\ \A a \in DOMAIN r.keys : Ok(r.keys[a]) \in generateKey(a, r.securityMode)

\* A step that starts with the security mode locked leaves the mode as it is,
\* and when it unlocks it empties the keys, the layers and the texts.
PanelLockedStep ==
  (run.op = "panel" /\ run.isSecurityModeLocked) =>
    /\ run'.securityMode = run.securityMode
    /\ ~run'.isSecurityModeLocked =>
         /\ run'.keys = EmptyMap /\ run'.layers = <<>>
         /\ run'.plaintext = <<>> /\ run'.ciphertext = <<>> /\ run'.result = <<>>

\* C29: under every interleaving of the steps of Generate Keys with mode
\* clicks, Encrypt, Decrypt and Clear, whenever the security mode is locked
\* the stored keys are keys for exactly the algorithms of the selected mode's
\* chain, generated for that mode; a step taken while locked does not change
\* the mode, and one that unlocks empties keys, layers and texts.
C29_LockedKeysFitMode ==
  /\ []((run.op = "panel" /\ run.isSecurityModeLocked) => PanelKeysFitMode(run))
  /\ [][PanelLockedStep]_vars

\* multiLayerDecrypt over the selected mode's chain with the key map `keys`
\* returns the plaintext of the ciphertext c.
PanelDecrypts(r, c, keys) ==
  LET d == RunAlone(BeginDecrypt(c.encrypted, selectedAlgorithms(r), keys,
                                 r.securityMode), EmptyMap)
  IN  d.state = "Complete" /\ d.text = c.plaintext

\* C30: once Generate Keys has stored its keys and as long as Clear is not
\* clicked, every Encrypt leaves the panel's key map as Generate Keys stored
\* it, so that the keys generated decrypt the ciphertext of the first Encrypt,
\* and the keys held after any later Encrypt decrypt it as well.
C30_EncryptKeepsKeys ==
  (run.op = "panel" /\ run.generatedKeys # EmptyMap /\ run.first.valid) =>
    /\ run.keys = run.generatedKeys
    /\ PanelDecrypts(run, run.first, run.generatedKeys)
    /\ PanelDecrypts(run, run.first, run.keys)

====
